---- MODULE Spec2Model ----
(***************************************************************************)
(* A model of scripts/config.py (ConfigManager): the tag merger, the       *)
(* layered-defaults resolver, the parameter validator, the local/stack     *)
(* configuration comparison, the run of main() with its reconciliation     *)
(* against the deployed stack, the order save_config writes the stages in, *)
(* the strings samconfig holds for parameter overrides and tags, the tags *)
(* generated for a stage, the prompts of prompt_for_parameters, the read   *)
(* of the samconfig file and the configuration build_config builds over    *)
(* successive runs.                                                        *)
(*                                                                         *)
(* Python values are modelled as follows.                                  *)
(*   str   : where the code inspects characters (startswith, len, regex,   *)
(*           float()) a string is a sequence of one-character strings;     *)
(*           elsewhere (opaque values) it is a TLA+ string.                *)
(*   dict  : a sequence of entries without repeated keys, in insertion     *)
(*           order (Python dicts iterate in insertion order).              *)
(*   list  : a sequence.                                                   *)
(*   None  : an optional value is None (the empty tuple) or Some(x).       *)
(***************************************************************************)
EXTENDS Integers, Sequences, FiniteSets, TLC

VARIABLES
    pc,             \* position of the operation under study
    original_tags,  \* merge_tags: first argument
    new_tags,       \* merge_tags: second argument
    tag_result,     \* merge_tags: returned list
    config_files,   \* load_defaults: the layers, in the order they are read
    file_idx,       \* load_defaults: number of layers processed so far
    defaults,       \* load_defaults: the accumulated dictionary
    deep_update_result, \* load_defaults: what the last deep_update returned
    arg_value,      \* validate_parameter: the value entered
    arg_param_def,  \* validate_parameter: the parameter definition
    validation_result,  \* validate_parameter: the returned {reason, valid}
    stage_id,       \* ConfigManager.stage_id
    local_config,   \* compare_configurations: the local configuration
    stack_config,   \* compare_configurations: the deployed configuration
    differences,    \* compare_configurations: the returned flag
    comparison,     \* compare_configurations: the entries printed, per section
    check_stack,    \* main: the --check-stack option
    lookup,         \* get_stack_config: how describe_stacks answered
    choice,         \* compare_against_stack: the answer given to its prompt
    read_config,    \* main: the configuration read_samconfig returned
    saved,          \* main: save_config has been executed
    exited,          \* the run ended through sys.exit or click.Abort
    deployment_stages,    \* save_config: the keys of config['deployments'], in insertion order
    written_stages,    \* save_config: the stages in the order their sections are written
    overrides_dict,    \* the parameter overrides of a stage, as a dictionary
    overrides_string,    \* stringify_parameter_overrides: the string written
    overrides_parsed,    \* parse_parameter_overrides: the dictionary read back
    tag_list,    \* the tags of a stage, as a list
    tag_string,    \* stringify_tags: the string written
    tags_parsed,    \* parse_tags: the outcome of reading the string back
    gen_parameters,    \* main: the validated parameter values
    defaults_tags,    \* main: defaults.get('tags', []) of the loaded defaults
    has_local,    \* main: a local configuration was read
    local_tags,    \* main: the tags the local configuration holds for the stage
    tag_defaults,    \* main: the tag defaults handed to build_config
    automated_tags,    \* generate_tags: the list generate_automated_tags returned
    stage_tags,    \* build_config: the tags built for the stage
    template_parameters,    \* prompt_for_parameters: the Parameters of the template, in the order of the file
    prompt_defaults,    \* prompt_for_parameters: the defaults dictionary (updated in place)
    prompt_values,    \* prompt_for_parameters: the values accepted so far
    param_idx,    \* prompt_for_parameters: the position of the loop over parameters.items()
    default_value,    \* prompt_for_parameters: the default offered at the prompt
    prompt_value,    \* prompt_for_parameters: the value the prompt returned
    self_prefix,    \* ConfigManager.prefix
    self_project_id,    \* ConfigManager.project_id
    self_stage_id,    \* ConfigManager.stage_id
    prompt_error,    \* prompt_for_parameters: the exception that ended the call
    samconfig,    \* read_samconfig: the content of the samconfig file, toml.load(samconfig_path)
    section_idx,    \* read_samconfig: the position of the loop over samconfig.items()
    samconfig_data,    \* read_samconfig: the dictionary being built
    read_result,    \* read_samconfig: what the call returned
    local_exists,    \* main: read_samconfig returned a configuration
    local_deployments,    \* main: the deployments of the configuration read_samconfig returned
    build_argv,    \* sys.argv of the run
    build_values,    \* build_config: parameter_values
    build_stage_id,    \* build_config: stage_id
    apply_choice,    \* build_config: the answer to 'Apply Deploy Parameters to All?'
    built_atlantis,    \* build_config: the deploy parameters of config['atlantis']
    built_deployments    \* build_config: config['deployments']

tagVars      == <<original_tags, new_tags, tag_result>>
defaultsVars == <<config_files, file_idx, defaults, deep_update_result>>

validateVars == <<arg_value, arg_param_def, validation_result>>

compareVars  == <<stage_id, local_config, stack_config, differences, comparison>>

mainVars == <<check_stack, lookup, choice, read_config, saved, exited>>

saveVars == <<deployment_stages, written_stages>>

overridesVars == <<overrides_dict, overrides_string, overrides_parsed>>

tagStringVars == <<tag_list, tag_string, tags_parsed>>

genVars == <<gen_parameters, defaults_tags, has_local, local_tags, tag_defaults, automated_tags, stage_tags>>

promptVars == <<template_parameters, prompt_defaults, prompt_values, param_idx, default_value, prompt_value, self_prefix, self_project_id, self_stage_id, prompt_error>>

readVars == <<samconfig, section_idx, samconfig_data, read_result>>

buildVars == <<local_exists, local_deployments, build_argv, build_values, build_stage_id, apply_choice, built_atlantis, built_deployments>>

vars == <<pc, tagVars, defaultsVars, validateVars, compareVars, mainVars, saveVars, overridesVars, tagStringVars, genVars, promptVars, readVars, buildVars>>

(***************************************************************************)
(* Bounds                                                                  *)
(***************************************************************************)
MaxTags == 2        \* longest tag list drawn as an input

(***************************************************************************)
(* Strings as character sequences                                          *)
(***************************************************************************)
\* str.startswith(prefix)
StartsWith(s, prefix) ==
    /\ Len(s) >= Len(prefix)
    /\ SubSeq(s, 1, Len(prefix)) = prefix

\* all sequences over S of length 0..n
SeqsUpTo(S, n) == UNION {[1..m -> S] : m \in 0..n}

\* the indices of a sequence
Idx(s) == 1..Len(s)

(***************************************************************************)
(* Tags: {'Key': k, 'Value': v}                                            *)
(***************************************************************************)
K_AtlantisApp == <<"A","t","l","a","n","t","i","s",":","A","p","p">>
K_atlantis_x  == <<"a","t","l","a","n","t","i","s",":","x">>
K_atlantisx   == <<"a","t","l","a","n","t","i","s","x">>
K_Owner       == <<"O","w","n","e","r">>
K_Team        == <<"T","e","a","m">>

TagKeys == {K_AtlantisApp, K_atlantis_x, K_atlantisx, K_Owner}
TagVals == {"v1", "v2"}
Tag     == [Key : TagKeys, Value : TagVals]
TagLists == SeqsUpTo(Tag, MaxTags)

P_atlantis == <<"a","t","l","a","n","t","i","s",":">>
P_Atlantis == <<"A","t","l","a","n","t","i","s">>

\* IsProtectedKey with the prefix test done without the colon
IsProtectedKey_nocolon(key) ==
    StartsWith(key, <<"a","t","l","a","n","t","i","s">>) \/ StartsWith(key, P_Atlantis)

\* key.startswith('atlantis:') or key.startswith('Atlantis')
IsProtectedKey(key) ==
    StartsWith(key, P_atlantis) \/ StartsWith(key, P_Atlantis)

\* key in tag_dict
HasKey(tag_dict, key) == \E i \in Idx(tag_dict) : tag_dict[i].Key = key

\* a list append in place of the dictionary assignment
SetKey_append(tag_dict, key, value) ==
    Append(tag_dict, [Key |-> key, Value |-> value])

\* tag_dict[key] = value : an existing key keeps its position, a new key is
\* appended
SetKey(tag_dict, key, value) ==
    IF HasKey(tag_dict, key)
    THEN [i \in Idx(tag_dict) |->
            IF tag_dict[i].Key = key
            THEN [Key |-> key, Value |-> value]
            ELSE tag_dict[i]]
    ELSE Append(tag_dict, [Key |-> key, Value |-> value])

\* {tag['Key']: tag['Value'] for tag in tags}
RECURSIVE TagDictOf(_)
TagDictOf(tags) ==
    IF tags = <<>> THEN <<>>
    ELSE LET n == Len(tags)
         IN  SetKey(TagDictOf(SubSeq(tags, 1, n - 1)), tags[n].Key, tags[n].Value)

\* MergeOneTag without the protected-namespace test: the overlay always wins
MergeOneTag_overwrite(tag_dict, new_tag) ==
    SetKey(tag_dict, new_tag.Key, new_tag.Value)

\* one iteration of the loop over new_tags
MergeOneTag(tag_dict, new_tag) ==
    LET key == new_tag.Key
    IN  IF HasKey(tag_dict, key) /\ ~IsProtectedKey(key)
        THEN SetKey(tag_dict, key, new_tag.Value)
        ELSE IF ~HasKey(tag_dict, key)
        THEN SetKey(tag_dict, key, new_tag.Value)
        ELSE tag_dict

RECURSIVE MergeLoop(_, _)
MergeLoop(tag_dict, tags) ==
    IF tags = <<>> THEN tag_dict
    ELSE MergeLoop(MergeOneTag(tag_dict, Head(tags)), Tail(tags))

\* ConfigManager.merge_tags(original_tags, new_tags)
merge_tags(original, new) == MergeLoop(TagDictOf(original), new)

\* the variables of a component that a specification does not exercise
IdleTags     == original_tags = <<>> /\ new_tags = <<>> /\ tag_result = <<>>
IdleDefaults ==
    /\ config_files = <<>> /\ file_idx = 0 /\ defaults = <<>>
    /\ deep_update_result = <<>>
IdleValidate == arg_value = <<>> /\ arg_param_def = <<>> /\ validation_result = <<>>
IdleCompare  ==
    /\ stage_id = "" /\ local_config = <<>> /\ stack_config = <<>>
    /\ differences = FALSE /\ comparison = <<>>
IdleMain ==
    /\ check_stack = FALSE /\ lookup = "" /\ choice = ""
    /\ read_config = <<>> /\ saved = FALSE /\ exited = FALSE
IdleSave ==
    deployment_stages = <<>> /\ written_stages = <<>>
IdleOverrides ==
    overrides_dict = <<>> /\ overrides_string = <<>> /\ overrides_parsed = <<>>
IdleTagString ==
    tag_list = <<>> /\ tag_string = <<>> /\ tags_parsed = <<>>
IdleGen ==
    /\ gen_parameters = <<>> /\ defaults_tags = <<>> /\ has_local = FALSE
    /\ local_tags = <<>> /\ tag_defaults = <<>> /\ automated_tags = <<>>
    /\ stage_tags = <<>>
IdlePrompt ==
    /\ template_parameters = <<>> /\ prompt_defaults = <<>> /\ prompt_values = <<>> /\ param_idx = 0
    /\ default_value = <<>> /\ prompt_value = <<>> /\ self_prefix = <<>> /\ self_project_id = <<>>
    /\ self_stage_id = <<>> /\ prompt_error = ""
IdleRead ==
    /\ samconfig = <<>> /\ section_idx = 0 /\ samconfig_data = <<>> /\ read_result = ""
IdleBuild ==
    /\ local_exists = FALSE /\ local_deployments = <<>> /\ build_argv = <<>> /\ build_values = <<>>
    /\ build_stage_id = "" /\ apply_choice = "" /\ built_atlantis = <<>> /\ built_deployments = <<>>

(***************************************************************************)
(* Specification SpecTags: merge_tags applied to any two tag lists          *)
(***************************************************************************)
InitTags ==
    /\ pc = "start"
    /\ original_tags \in TagLists
    /\ new_tags \in TagLists
    /\ tag_result = <<>>
    /\ IdleDefaults
    /\ IdleValidate
    /\ IdleCompare
    /\ IdleMain
    /\ IdleSave
    /\ IdleOverrides
    /\ IdleTagString
    /\ IdleGen
    /\ IdlePrompt
    /\ IdleRead
    /\ IdleBuild

MergeTags ==
    /\ pc = "start"
    /\ tag_result' = merge_tags(original_tags, new_tags)
    /\ pc' = "done"
    /\ UNCHANGED <<original_tags, new_tags, defaultsVars, validateVars, compareVars, mainVars, saveVars, overridesVars, tagStringVars, genVars, promptVars, readVars, buildVars>>

NextTags == MergeTags

SpecTags == InitTags /\ [][NextTags]_vars

\* keys of a tag list
KeysOf(tags) == {tags[i].Key : i \in Idx(tags)}

\* no key occurs twice in the list
UniqueKeys(tags) ==
    \A i, j \in Idx(tags) : tags[i].Key = tags[j].Key => i = j

\* the value listed for key (lists with unique keys)
ValueOf(tags, key) == tags[CHOOSE i \in Idx(tags) : tags[i].Key = key].Value

\* the input keys in the protected namespace: they start with 'atlantis:' or
\* 'Atlantis'; 'atlantisx' (no colon) and 'Owner' do not
ProtectedInputKeys == {K_AtlantisApp, K_atlantis_x}

ExampleBase    == <<[Key |-> K_AtlantisApp, Value |-> "v1"],
                    [Key |-> K_Owner, Value |-> "alice"]>>
ExampleOverlay == <<[Key |-> K_AtlantisApp, Value |-> "v2"],
                    [Key |-> K_Owner, Value |-> "bob"],
                    [Key |-> K_Team, Value |-> "infra"]>>
ExampleMerged  == <<[Key |-> K_AtlantisApp, Value |-> "v1"],
                    [Key |-> K_Owner, Value |-> "bob"],
                    [Key |-> K_Team, Value |-> "infra"]>>

\* C1: for base and overlay lists with unique keys, merge_tags maps every key
\* of either list exactly once: a protected key of the base keeps the base
\* value, an unprotected key of the base takes the overlay value when the
\* overlay has it, a key absent from the base gets the overlay value whether
\* protected or not, a key only in the base keeps the base value; and the
\* example {Atlantis:App=v1, Owner=alice} + {Atlantis:App=v2, Owner=bob,
\* Team=infra} gives {Atlantis:App=v1, Owner=bob, Team=infra}.
C1_MergeLaw ==
    /\ merge_tags(ExampleBase, ExampleOverlay) = ExampleMerged
    /\ (pc = "done" /\ UniqueKeys(original_tags) /\ UniqueKeys(new_tags)) =>
          /\ UniqueKeys(tag_result)
          /\ KeysOf(tag_result) = KeysOf(original_tags) \cup KeysOf(new_tags)
          /\ \A k \in KeysOf(tag_result) :
                ValueOf(tag_result, k) =
                    IF k \in KeysOf(original_tags)
                    THEN IF k \in ProtectedInputKeys
                         THEN ValueOf(original_tags, k)
                         ELSE IF k \in KeysOf(new_tags)
                              THEN ValueOf(new_tags, k)
                              ELSE ValueOf(original_tags, k)
                    ELSE ValueOf(new_tags, k)

\* a merge in which a protected key and an unprotected key are both in the
\* base and in the overlay with different values
C1_Witness ==
    /\ pc = "done"
    /\ UniqueKeys(original_tags) /\ UniqueKeys(new_tags)
    /\ \E k \in ProtectedInputKeys \cap KeysOf(original_tags) \cap KeysOf(new_tags) :
            ValueOf(original_tags, k) # ValueOf(new_tags, k)
    /\ \E k \in (KeysOf(original_tags) \cap KeysOf(new_tags)) \ ProtectedInputKeys :
            ValueOf(original_tags, k) # ValueOf(new_tags, k)

(***************************************************************************)
(* JSON values of the defaults files.  A value is a record [t, v]:          *)
(*   t = "scalar", v a string        t = "dict", v a dict (entry sequence)  *)
(*   t = "list",   v a list          t = "absent": no value / no file       *)
(***************************************************************************)
Scalar(s) == [t |-> "scalar", v |-> s]
DictV(d)  == [t |-> "dict", v |-> d]
ListV(l)  == [t |-> "list", v |-> l]
Absent    == [t |-> "absent", v |-> ""]

\* key in d
DHas(d, key) == \E i \in Idx(d) : d[i].k = key

\* d[key]
DGet(d, key) == d[CHOOSE i \in Idx(d) : d[i].k = key].v

\* d[key] = value : an existing key keeps its position, a new key is appended
DSet(d, key, value) ==
    IF DHas(d, key)
    THEN [i \in Idx(d) |-> IF d[i].k = key THEN [k |-> key, v |-> value] ELSE d[i]]
    ELSE Append(d, [k |-> key, v |-> value])

\* a list element that merge_tags can read: a dictionary with 'Key' and 'Value'
IsTag(element) == {"Key", "Value"} \subseteq DOMAIN element

\* merge_tags(original_tags, new_tags) raises (KeyError, TypeError) when an
\* element of either list is not a tag; it has then assigned nothing
MergeTagsRaises(original_list, new_list) ==
    \/ \E i \in Idx(original_list) : ~IsTag(original_list[i])
    \/ \E i \in Idx(new_list) : ~IsTag(new_list[i])

RECURSIVE deep_update(_, _)
RECURSIVE deep_update_raises(_, _)

\* the step of deep_update for the first entry of update raises: the nested
\* call does, or merge_tags does
EntryRaises(original, update) ==
    LET key   == Head(update).k
        value == Head(update).v
    IN  /\ DHas(original, key)
        /\ \/ /\ DGet(original, key).t = "dict" /\ value.t = "dict"
              /\ deep_update_raises(DGet(original, key).v, value.v)
           \/ /\ DGet(original, key).t = "list" /\ value.t = "list"
              /\ MergeTagsRaises(DGet(original, key).v, value.v)

\* deep_update that replaces a nested dictionary instead of descending into it
deep_update_shallow(original, update) ==
    IF update = <<>> THEN original
    ELSE LET RECURSIVE Put(_, _)
             Put(o, u) == IF u = <<>> THEN o
                          ELSE Put(DSet(o, Head(u).k, Head(u).v), Tail(u))
         IN  Put(original, update)

\* deep_update that keeps the value a key already has
deep_update_keep(original, update) ==
    IF update = <<>> THEN original
    ELSE LET RECURSIVE Put(_, _)
             Put(o, u) == IF u = <<>> THEN o
                          ELSE IF DHas(o, Head(u).k) THEN Put(o, Tail(u))
                          ELSE Put(DSet(o, Head(u).k, Head(u).v), Tail(u))
         IN  Put(original, update)

\* ConfigManager.deep_update(original, update): the value of `original`
\* (updated in place and returned) after the loop over update.items(); when
\* the step for an entry raises, the loop ends there and `original` keeps
\* what the earlier entries and the nested call have written
deep_update(original, update) ==
    IF update = <<>> THEN original
    ELSE LET key   == Head(update).k
             value == Head(update).v
             next  ==
                IF DHas(original, key) /\ DGet(original, key).t = "dict"
                                       /\ value.t = "dict"
                THEN DSet(original, key,
                          DictV(deep_update(DGet(original, key).v, value.v)))
                ELSE IF DHas(original, key) /\ DGet(original, key).t = "list"
                                            /\ value.t = "list"
                THEN IF MergeTagsRaises(DGet(original, key).v, value.v)
                     THEN original
                     ELSE DSet(original, key,
                               ListV(merge_tags(DGet(original, key).v, value.v)))
                ELSE DSet(original, key, value)
         IN  IF EntryRaises(original, update) THEN next
             ELSE deep_update(next, Tail(update))

\* the call deep_update(original, update) ends with an exception
deep_update_raises(original, update) ==
    /\ update # <<>>
    /\ \/ EntryRaises(original, update)
       \/ deep_update_raises(deep_update(original, <<Head(update)>>), Tail(update))

\* a deep_update that works on a copy: the caller's dictionary stays as it was
original_after_untouched(original, update) == original

\* the dictionary the caller passed as `original`, after the call: the loop
\* assigns into that dictionary itself (`original[key] = ...`, and the
\* recursive call on `original[key]`), so it holds what is returned
original_after(original, update) == deep_update(original, update)

(***************************************************************************)
(* The fragments drawn as defaults layers: an optional 'atlantis' value (a  *)
(* scalar or a dictionary of scalars) and an optional 'tags' value (a       *)
(* scalar or a tag list, possibly with repeated keys).                      *)
(***************************************************************************)
OptEntry(key, value) ==
    IF value = Absent THEN <<>> ELSE <<[k |-> key, v |-> value]>>

InnerDicts ==
    {OptEntry("x", vx) \o OptEntry("y", vy) :
        vx \in {Absent, Scalar("s1"), Scalar("s2")},
        vy \in {Absent, Scalar("s1")}}

AtlantisValues == {Absent, Scalar("s1")} \cup {DictV(d) : d \in InnerDicts}

FragmentTag == [Key : {K_atlantis_x, K_Owner}, Value : TagVals]

TagsValues ==
    {Absent, Scalar("s1")} \cup {ListV(l) : l \in SeqsUpTo(FragmentTag, MaxTags)}

Fragments ==
    {OptEntry("atlantis", va) \o OptEntry("tags", vt) :
        va \in AtlantisValues, vt \in TagsValues}

(***************************************************************************)
(* Specification SpecDefaults: load_defaults over the layers [A, B, B]      *)
(***************************************************************************)
InitDefaults ==
    /\ pc = "load"
    /\ \E A \in Fragments, B \in Fragments :
            config_files = <<DictV(A), DictV(B), DictV(B)>>
    /\ file_idx = 0
    /\ defaults = <<>>
    /\ deep_update_result = <<>>
    /\ IdleTags
    /\ IdleValidate
    /\ IdleCompare
    /\ IdleMain
    /\ IdleSave
    /\ IdleOverrides
    /\ IdleTagString
    /\ IdleGen
    /\ IdlePrompt
    /\ IdleRead
    /\ IdleBuild

\* one iteration of `for config_file in config_files`: a file that does not
\* exist is skipped, an existing one is loaded and merged into defaults; the
\* exception of json.load or of deep_update is logged and the loop goes on
LoadConfigFile ==
    /\ pc = "load"
    /\ file_idx < Len(config_files)
    /\ LET new_config == config_files[file_idx + 1]
       IN  IF new_config.t = "dict"
           THEN /\ defaults' = original_after(defaults, new_config.v)
                /\ deep_update_result' =
                        IF deep_update_raises(defaults, new_config.v)
                        THEN deep_update_result
                        ELSE deep_update(defaults, new_config.v)
           ELSE UNCHANGED <<defaults, deep_update_result>>
    /\ file_idx' = file_idx + 1
    /\ pc' = IF file_idx + 1 = Len(config_files) THEN "done" ELSE "load"
    /\ UNCHANGED <<config_files, tagVars, validateVars, compareVars, mainVars, saveVars, overridesVars, tagStringVars, genVars, promptVars, readVars, buildVars>>

NextDefaults == LoadConfigFile

SpecDefaults == InitDefaults /\ [][NextDefaults]_vars

(***************************************************************************)
(* Specification SpecLayers: load_defaults over the six layer files        *)
(***************************************************************************)
\* config_files of load_defaults, in the order of the list (main() requires
\* a project id, so the project file of the settings directory is listed)
LayerNames ==
    <<"defaults", "prefix", "prefix-project",
      "infra/defaults", "infra/prefix", "infra/prefix-project">>

\* a file whose content json.load cannot decode (json.JSONDecodeError)
Undecodable == [t |-> "undecodable", v |-> ""]

\* a list element that is not a tag: a JSON object without 'Key'
NotATag(n) == [Name |-> n]

\* what the file of layer n can be: missing, undecodable, a JSON document
\* that is not an object, or an object that sets "region" to the layer's name,
\* alone or next to a list under "capabilities"
LayerFiles(n) ==
    { Absent, Undecodable, ListV(<<>>),
      DictV(<<[k |-> "region", v |-> Scalar(n)]>>),
      DictV(<<[k |-> "region", v |-> Scalar(n)],
              [k |-> "capabilities", v |-> ListV(<<NotATag(n)>>)]>>),
      DictV(<<[k |-> "capabilities", v |-> ListV(<<NotATag(n)>>)],
              [k |-> "region", v |-> Scalar(n)]>>) }

InitLayers ==
    /\ pc = "load"
    /\ \E f1 \in LayerFiles(LayerNames[1]), f2 \in LayerFiles(LayerNames[2]),
          f3 \in LayerFiles(LayerNames[3]), f4 \in LayerFiles(LayerNames[4]),
          f5 \in LayerFiles(LayerNames[5]), f6 \in LayerFiles(LayerNames[6]) :
            config_files = <<f1, f2, f3, f4, f5, f6>>
    /\ file_idx = 0
    /\ defaults = <<>>
    /\ deep_update_result = <<>>
    /\ IdleTags
    /\ IdleValidate
    /\ IdleCompare
    /\ IdleMain
    /\ IdleSave
    /\ IdleOverrides
    /\ IdleTagString
    /\ IdleGen
    /\ IdlePrompt
    /\ IdleRead
    /\ IdleBuild

SpecLayers == InitLayers /\ [][NextDefaults]_vars

\* the value found in val by following the keys of path through nested
\* dictionaries, Absent when there is none
RECURSIVE PathGet(_, _)
PathGet(val, path) ==
    IF path = <<>> THEN val
    ELSE IF val.t = "dict" /\ DHas(val.v, Head(path))
    THEN PathGet(DGet(val.v, Head(path)), Tail(path))
    ELSE Absent

\* the key paths of the fragments
Paths == {<<"atlantis">>, <<"tags">>, <<"atlantis", "x">>, <<"atlantis", "y">>}

\* the non-empty prefixes of a path
Prefixes(path) == {SubSeq(path, 1, n) : n \in 1..Len(path)}

LayerA == config_files[1]
LayerB == config_files[2]

\* B omits the key at path: no prefix of the path is defined in B, except as
\* a dictionary enclosing it
Omits(layer, path) ==
    \A q \in Prefixes(path) :
        \/ PathGet(layer, q) = Absent
        \/ q # path /\ PathGet(layer, q).t = "dict"

\* C2: after the layers [A, B] are merged, every scalar key of the result, at
\* any nesting depth, has B's value when B defines the key and A's value when
\* B omits it; every scalar key of B is in the result with B's value, and
\* every scalar key of A that B omits is in the result with A's value.
C2_Precedence ==
    file_idx = 2 =>
        \A p \in Paths :
            LET r == PathGet(DictV(defaults), p)
                a == PathGet(LayerA, p)
                b == PathGet(LayerB, p)
            IN  /\ r.t = "scalar" => r = (IF b # Absent THEN b ELSE a)
                /\ b.t = "scalar" => r = b
                /\ (a.t = "scalar" /\ Omits(LayerB, p)) => r = a

\* a merge in which B overrides a nested scalar of A, omits another nested
\* scalar of A, and both carry tag lists
C2_Witness ==
    /\ file_idx = 2
    /\ PathGet(LayerA, <<"atlantis", "x">>) = Scalar("s1")
    /\ PathGet(LayerB, <<"atlantis", "x">>) = Scalar("s2")
    /\ PathGet(LayerA, <<"atlantis", "y">>) = Scalar("s1")
    /\ PathGet(LayerB, <<"atlantis", "y">>) = Absent
    /\ PathGet(DictV(defaults), <<"atlantis", "x">>) = Scalar("s2")
    /\ PathGet(DictV(defaults), <<"atlantis", "y">>) = Scalar("s1")
    /\ PathGet(LayerA, <<"tags">>).t = "list"
    /\ PathGet(LayerB, <<"tags">>).t = "list"

\* a JSON value with its dictionaries as functions of their keys: Python
\* compares dictionaries without regard to insertion order, lists in order
RECURSIVE Unordered(_)
Unordered(val) ==
    IF val.t = "dict"
    THEN [t |-> "dict",
          v |-> [key \in {val.v[i].k : i \in Idx(val.v)} |->
                    Unordered(DGet(val.v, key))]]
    ELSE val

\* C3: merging the layers [A, B, B] gives exactly the result of merging
\* [A, B]: the step that merges B a second time leaves defaults unchanged.
C3_Idempotent ==
    [][(file_idx = 2 /\ file_idx' = 3) =>
            Unordered(DictV(defaults')) = Unordered(DictV(defaults))]_vars

(***************************************************************************)
(* Parameter validation                                                    *)
(***************************************************************************)
Space  == " "
Digits == {"0","1","2","3","4","5","6","7","8","9"}
Lower  == {"a","b","c","d","e","f","g","h","i","j","k","l","m",
           "n","o","p","q","r","s","t","u","v","w","x","y","z"}

\* the characters of the input values
Chars == Lower \cup Digits \cup {Space, "-", ".", ",", "!"}

\* an optional value: None, or Some(x) for the value x
None    == <<>>
Some(x) == <<x>>
Get(o)  == o[1]

\* str.strip() (the only whitespace among Chars is the space)
RECURSIVE LStrip(_)
LStrip(s) == IF s # <<>> /\ Head(s) = Space THEN LStrip(Tail(s)) ELSE s

RECURSIVE RStrip(_)
RStrip(s) ==
    IF s # <<>> /\ s[Len(s)] = Space THEN RStrip(SubSeq(s, 1, Len(s) - 1)) ELSE s

Strip(s) == RStrip(LStrip(s))

\* str.split(','): the pieces between the commas (at least one piece)
RECURSIVE Split(_)
Split(s) ==
    IF \E i \in Idx(s) : s[i] = ","
    THEN LET i == CHOOSE j \in Idx(s) :
                    s[j] = "," /\ \A m \in 1..(j - 1) : s[m] # ","
         IN  <<SubSeq(s, 1, i - 1)>> \o Split(SubSeq(s, i + 1, Len(s)))
    ELSE <<s>>

(***************************************************************************)
(* float(): a float is nan, -inf, +inf, or the finite number num/den.      *)
(* The grammar covers the forms among the input values:                    *)
(*   [spaces] [sign] (digits ['.' [digits]] | '.' digits | inf | nan)       *)
(* anything else among the inputs raises ValueError.                       *)
(***************************************************************************)
Fin(n)     == [kind |-> "fin", num |-> n, den |-> 1]
NaN        == [kind |-> "nan", num |-> 0, den |-> 1]
PosInf     == [kind |-> "inf", num |-> 1, den |-> 1]
NegInf     == [kind |-> "inf", num |-> -1, den |-> 1]
ValueError == [kind |-> "ValueError", num |-> 0, den |-> 1]

DigitVal(c) == CHOOSE n \in 0..9 : <<"0","1","2","3","4","5","6","7","8","9">>[n + 1] = c

AllDigits(s) == \A i \in Idx(s) : s[i] \in Digits

RECURSIVE Pow10(_)
Pow10(n) == IF n = 0 THEN 1 ELSE 10 * Pow10(n - 1)

\* the natural number written by a digit string ("" gives 0)
RECURSIVE DigitsVal(_)
DigitsVal(s) ==
    IF s = <<>> THEN 0
    ELSE 10 * DigitsVal(SubSeq(s, 1, Len(s) - 1)) + DigitVal(s[Len(s)])

\* an unsigned body: digits, digits '.', digits '.' digits, '.' digits
ParseUnsigned(s, sign) ==
    IF s = <<"n","a","n">> THEN NaN
    ELSE IF s = <<"i","n","f">> THEN (IF sign < 0 THEN NegInf ELSE PosInf)
    ELSE IF \E i \in Idx(s) : s[i] = "."
    THEN LET i    == CHOOSE j \in Idx(s) : s[j] = "." /\ \A m \in 1..(j - 1) : s[m] # "."
             ip   == SubSeq(s, 1, i - 1)
             fp   == SubSeq(s, i + 1, Len(s))
         IN  IF AllDigits(ip) /\ AllDigits(fp) /\ Len(ip) + Len(fp) > 0
             THEN [kind |-> "fin",
                   num  |-> sign * (DigitsVal(ip) * Pow10(Len(fp)) + DigitsVal(fp)),
                   den  |-> Pow10(Len(fp))]
             ELSE ValueError
    ELSE IF s # <<>> /\ AllDigits(s)
    THEN [kind |-> "fin", num |-> sign * DigitsVal(s), den |-> 1]
    ELSE ValueError

\* float(value) for a string
ParseFloat(value) ==
    LET s == Strip(value)
    IN  IF s # <<>> /\ Head(s) = "-" THEN ParseUnsigned(Tail(s), -1)
        ELSE IF s # <<>> /\ Head(s) = "+" THEN ParseUnsigned(Tail(s), 1)
        ELSE ParseUnsigned(s, 1)

\* a < b on floats: every comparison with nan is false
FloatLt(a, b) ==
    IF a.kind = "nan" \/ b.kind = "nan" THEN FALSE
    ELSE IF a.kind = "inf" THEN a.num < 0 /\ ~(b.kind = "inf" /\ b.num < 0)
    ELSE IF b.kind = "inf" THEN b.num > 0
    ELSE a.num * b.den < b.num * a.den

(***************************************************************************)
(* Regular expressions: a pattern is a sequence of atoms, each a character  *)
(* class with a repetition ("one", "star", "plus"), optionally followed by  *)
(* '$'.  A leading '^' changes nothing under re.match, which only tries     *)
(* position 0.                                                              *)
(***************************************************************************)
Atom(class, rep) == [class |-> class, rep |-> rep]

\* the positions at which a run of one or more characters of class, starting
\* at position i of s, can end
RunEnds(class, s, i) ==
    {j \in (i + 1)..(Len(s) + 1) : \A m \in i..(j - 1) : s[m] \in class}

\* the positions after a match of atoms starting at position i of s
RECURSIVE MatchEnds(_, _, _)
MatchEnds(atoms, s, i) ==
    IF atoms = <<>> THEN {i}
    ELSE LET a     == Head(atoms)
             first ==
                IF a.rep = "one"
                THEN {j \in {i + 1} : i <= Len(s) /\ s[i] \in a.class}
                ELSE IF a.rep = "plus" THEN RunEnds(a.class, s, i)
                ELSE {i} \cup RunEnds(a.class, s, i)
         IN  UNION {MatchEnds(Tail(atoms), s, j) : j \in first}

\* re.match(pattern, value) is not None: some prefix of value matches
re_match(pattern, value) ==
    \E j \in MatchEnds(pattern.atoms, value, 1) :
        pattern.dollar => j = Len(value) + 1

\* '^z.*'
Pat_z      == [atoms |-> <<Atom({"z"}, "one"), Atom(Chars, "star")>>, dollar |-> FALSE]
\* '[a-z]+'
Pat_az     == [atoms |-> <<Atom(Lower, "plus")>>, dollar |-> FALSE]
\* '^[a-z]+$'
Pat_azFull == [atoms |-> <<Atom(Lower, "plus")>>, dollar |-> TRUE]
\* no AllowedPattern key
NoPattern  == [atoms |-> <<>>, dollar |-> FALSE]

(***************************************************************************)
(* validate_parameter                                                      *)
(***************************************************************************)
StringTypes == {"String", "AWS::SSM::Parameter::Value<String>"}
NumberTypes == {"Number", "AWS::SSM::Parameter::Value<Number>"}

Valid == [reason |-> <<"Valid">>, valid |-> TRUE]
Invalid(text, arg) == [reason |-> <<text, arg>>, valid |-> FALSE]

\* param_def.get('Type', 'String')
TypeOf(param_def) ==
    IF param_def.Type = None THEN "String" ELSE Get(param_def.Type)

\* param_def.get('MinValue', float('-inf')) and MaxValue, through float()
MinValueOf(param_def) ==
    IF param_def.MinValue = None THEN NegInf ELSE Fin(Get(param_def.MinValue))
MaxValueOf(param_def) ==
    IF param_def.MaxValue = None THEN PosInf ELSE Fin(Get(param_def.MaxValue))

\* CheckString with both length comparisons off by one
CheckString_strict(value, param_def) ==
    LET min_length == IF param_def.MinLength = None THEN 0 ELSE Get(param_def.MinLength)
        max_length == param_def.MaxLength
    IN  IF Len(value) <= min_length
        THEN Invalid("String length must be at least", min_length)
        ELSE IF max_length # None /\ Len(value) >= Get(max_length)
        THEN Invalid("String length must be no more than", Get(max_length))
        ELSE Valid

\* the String branch
CheckString(value, param_def) ==
    LET min_length == IF param_def.MinLength = None THEN 0 ELSE Get(param_def.MinLength)
        max_length == param_def.MaxLength
    IN  IF Len(value) < min_length
        THEN Invalid("String length must be at least", min_length)
        ELSE IF max_length # None /\ Len(value) > Get(max_length)
        THEN Invalid("String length must be no more than", Get(max_length))
        ELSE Valid

\* the Number branch
CheckNumber(value, param_def) ==
    LET num_value == ParseFloat(value)
        min_value == MinValueOf(param_def)
        max_value == MaxValueOf(param_def)
    IN  IF num_value = ValueError
        THEN Invalid("Value must be a number", None)
        ELSE IF FloatLt(num_value, min_value)
        THEN Invalid("Number must be at least", min_value)
        ELSE IF FloatLt(max_value, num_value)
        THEN Invalid("Number must be no more than", max_value)
        ELSE Valid

\* CheckType without the resource-reference branches
CheckType_noresource(value, param_def) ==
    LET param_type == TypeOf(param_def)
    IN  IF param_type \in StringTypes THEN CheckString(value, param_def)
        ELSE IF param_type \in NumberTypes THEN CheckNumber(value, param_def)
        ELSE Valid

\* the type-specific validations
CheckType(value, param_def) ==
    LET param_type == TypeOf(param_def)
    IN  IF param_type \in StringTypes THEN CheckString(value, param_def)
        ELSE IF param_type \in NumberTypes THEN CheckNumber(value, param_def)
        ELSE IF param_type = "CommaDelimitedList"
        THEN LET items == Split(value)
             IN  IF \E i \in Idx(items) : Strip(items[i]) = <<>>
                 THEN Invalid("CommaDelimitedList cannot contain empty items", None)
                 ELSE Valid
        ELSE IF param_type = "List<Number>"
        THEN LET items == Split(value)
             IN  IF \E i \in Idx(items) : ParseFloat(Strip(items[i])) = ValueError
                 THEN Invalid("All items must be valid numbers", None)
                 ELSE Valid
        ELSE IF param_type = "AWS::EC2::KeyPair::KeyName"
        THEN IF value = <<>>
             THEN Invalid("KeyPair name cannot be empty", None) ELSE Valid
        ELSE IF param_type = "AWS::EC2::VPC::Id"
        THEN IF ~StartsWith(value, <<"v","p","c","-">>)
             THEN Invalid("VPC ID must start with 'vpc-'", None) ELSE Valid
        ELSE IF param_type = "AWS::EC2::Subnet::Id"
        THEN IF ~StartsWith(value, <<"s","u","b","n","e","t","-">>)
             THEN Invalid("Subnet ID must start with 'subnet-'", None) ELSE Valid
        ELSE IF param_type = "AWS::EC2::SecurityGroup::Id"
        THEN IF ~StartsWith(value, <<"s","g","-">>)
             THEN Invalid("Security Group ID must start with 'sg-'", None) ELSE Valid
        ELSE Valid

\* value not in allowed_values
NotAllowed(value, allowed_values) ==
    \A i \in Idx(allowed_values) : allowed_values[i] # value

\* validate_parameter with the AllowedPattern test before the AllowedValues test
validate_parameter_pattern_first(value, param_def) ==
    IF value = <<>> /\ param_def.HasDefault
    THEN Valid
    ELSE IF param_def.AllowedPattern # NoPattern
            /\ ~re_match(param_def.AllowedPattern, value)
    THEN Invalid("Value must match pattern", param_def.AllowedPattern)
    ELSE IF param_def.AllowedValues # <<>> /\ NotAllowed(value, param_def.AllowedValues)
    THEN Invalid("Value must be one of", param_def.AllowedValues)
    ELSE CheckType(value, param_def)

\* validate_parameter with the empty-value rule applied last instead of first
validate_parameter_default_last(value, param_def) ==
    IF param_def.AllowedValues # <<>> /\ NotAllowed(value, param_def.AllowedValues)
    THEN Invalid("Value must be one of", param_def.AllowedValues)
    ELSE IF param_def.AllowedPattern # NoPattern
            /\ ~re_match(param_def.AllowedPattern, value)
    THEN Invalid("Value must match pattern", param_def.AllowedPattern)
    ELSE IF value = <<>> /\ param_def.HasDefault
    THEN Valid
    ELSE CheckType(value, param_def)

\* ConfigManager.validate_parameter(value, param_def)
validate_parameter(value, param_def) ==
    IF value = <<>> /\ param_def.HasDefault
    THEN Valid
    ELSE IF param_def.AllowedValues # <<>> /\ NotAllowed(value, param_def.AllowedValues)
    THEN Invalid("Value must be one of", param_def.AllowedValues)
    ELSE IF param_def.AllowedPattern # NoPattern
            /\ ~re_match(param_def.AllowedPattern, value)
    THEN Invalid("Value must match pattern", param_def.AllowedPattern)
    ELSE CheckType(value, param_def)

(***************************************************************************)
(* Specification SpecValidate: validate_parameter on any input value and    *)
(* any parameter definition                                                 *)
(***************************************************************************)
InputValues ==
    {<<>>,
     <<"q">>,
     <<"x">>,
     <<"y">>,
     <<"z">>,
     <<"z","q">>,
     <<"x","z">>,
     <<"a","b","c">>,
     <<"a","b","c","!">>,
     <<"a","b">>,
     <<"5">>,
     <<"1","1">>,
     <<"1">>,
     <<"1","0">>,
     <<"0">>,
     <<"-","1">>,
     <<"1",".","5">>,
     <<"1","0",".","5">>,
     <<" ","5">>,
     <<"n","a","n">>,
     <<"i","n","f">>,
     <<"-","i","n","f">>,
     <<"v","p","c","-","1">>,
     <<"x","v","p","c","-","1">>,
     <<"v","p","c">>,
     <<"s","u","b","n","e","t","-","1">>,
     <<"s","g","-","1">>,
     <<"a",",","b">>,
     <<"a",",",",","b">>,
     <<"a",","," ","b">>,
     <<"1",",","2">>,
     <<"1",",","x">>,
     <<"k","e","y">>}

OtherTypes ==
    {"CommaDelimitedList", "List<Number>", "AWS::EC2::KeyPair::KeyName",
     "AWS::EC2::VPC::Id", "AWS::EC2::Subnet::Id", "AWS::EC2::SecurityGroup::Id",
     "AWS::EC2::Image::Id"}

\* the Type with its length or value bounds (None: the key is missing)
TypeAndBounds ==
    [Type : {Some(t) : t \in StringTypes} \cup {None},
     MinLength : {None, Some(0), Some(2)}, MaxLength : {None, Some(0), Some(3)},
     MinValue : {None}, MaxValue : {None}]
    \cup
    [Type : {Some(t) : t \in NumberTypes},
     MinLength : {None}, MaxLength : {None},
     MinValue : {None, Some(1)}, MaxValue : {None, Some(10)}]
    \cup
    [Type : {Some(t) : t \in OtherTypes},
     MinLength : {None}, MaxLength : {None},
     MinValue : {None}, MaxValue : {None}]

AllowedValuesChoices == {<<>>, <<<<"x">>, <<"y">>>>, <<<<"5">>, <<"1">>>>}

AllowedPatternChoices == {NoPattern, Pat_z, Pat_az, Pat_azFull}

ParamDefs ==
    {[Type |-> tb.Type, MinLength |-> tb.MinLength, MaxLength |-> tb.MaxLength,
      MinValue |-> tb.MinValue, MaxValue |-> tb.MaxValue,
      HasDefault |-> d, AllowedValues |-> av, AllowedPattern |-> ap] :
        tb \in TypeAndBounds, d \in BOOLEAN,
        av \in AllowedValuesChoices, ap \in AllowedPatternChoices}

InitValidate ==
    /\ pc = "start"
    /\ arg_value \in InputValues
    /\ arg_param_def \in ParamDefs
    /\ validation_result = <<>>
    /\ IdleTags
    /\ IdleDefaults
    /\ IdleCompare
    /\ IdleMain
    /\ IdleSave
    /\ IdleOverrides
    /\ IdleTagString
    /\ IdleGen
    /\ IdlePrompt
    /\ IdleRead
    /\ IdleBuild

ValidateParameter ==
    /\ pc = "start"
    /\ validation_result' = validate_parameter(arg_value, arg_param_def)
    /\ pc' = "done"
    /\ UNCHANGED <<arg_value, arg_param_def, tagVars, defaultsVars, compareVars, mainVars, saveVars, overridesVars, tagStringVars, genVars, promptVars, readVars, buildVars>>

NextValidate == ValidateParameter

SpecValidate == InitValidate /\ [][NextValidate]_vars

\* rule (1) decides: the value is empty and the definition has a Default
EmptyWithDefault == arg_value = <<>> /\ arg_param_def.HasDefault

\* the value is one of the AllowedValues, or there are none
InAllowedValues ==
    \/ arg_param_def.AllowedValues = <<>>
    \/ arg_value \in {arg_param_def.AllowedValues[i] : i \in Idx(arg_param_def.AllowedValues)}

\* the AllowedPattern test of rule (3) passes, or there is no pattern
PassesPatternRule ==
    \/ arg_param_def.AllowedPattern = NoPattern
    \/ re_match(arg_param_def.AllowedPattern, arg_value)

ReasonText == validation_result.reason[1]

ExampleDef ==
    [Type |-> None, MinLength |-> None, MaxLength |-> None, MinValue |-> None,
     MaxValue |-> None, HasDefault |-> FALSE,
     AllowedValues |-> <<<<"x">>, <<"y">>>>, AllowedPattern |-> Pat_z]

\* C4: the rules are applied in the order empty-with-Default, AllowedValues,
\* AllowedPattern, type check, and the first failure is returned: where rule
\* (1) does not decide, a value outside a non-empty AllowedValues is invalid
\* with the allowed-values reason even when a pattern is declared, a value
\* that passes AllowedValues and fails the pattern rule is invalid with the
\* pattern reason, and no value reported valid fails either rule; validating
\* 'q' against AllowedValues [x, y] and AllowedPattern '^z.*' gives the
\* allowed-values reason.
C4_RuleOrder ==
    /\ validate_parameter(<<"q">>, ExampleDef)
            = Invalid("Value must be one of", <<<<"x">>, <<"y">>>>)
    /\ (pc = "done" /\ ~EmptyWithDefault) =>
          /\ ~InAllowedValues =>
                /\ ~validation_result.valid
                /\ validation_result.reason
                        = <<"Value must be one of", arg_param_def.AllowedValues>>
          /\ (InAllowedValues /\ ~PassesPatternRule) =>
                /\ ~validation_result.valid
                /\ validation_result.reason
                        = <<"Value must match pattern", arg_param_def.AllowedPattern>>
          /\ validation_result.valid => (InAllowedValues /\ PassesPatternRule)

\* a value outside the AllowedValues that the declared pattern would accept and
\* the type check would accept, reported invalid for the allowed values
C4_Witness ==
    /\ pc = "done"
    /\ arg_value = <<"z","q">>
    /\ arg_param_def.AllowedValues = <<<<"x">>, <<"y">>>>
    /\ arg_param_def.AllowedPattern = Pat_z
    /\ arg_param_def.Type = Some("String")
    /\ CheckType(arg_value, arg_param_def) = Valid
    /\ ~validation_result.valid
    /\ ReasonText = "Value must be one of"

\* C5: when the definition declares a Default, the empty value is reported
\* valid whatever the type, AllowedValues, AllowedPattern, MinLength or numeric
\* bounds.
C5_EmptyUsesDefault ==
    (pc = "done" /\ arg_value = <<>> /\ arg_param_def.HasDefault) =>
        validation_result = Valid

\* the empty value validated against a Number definition with a Default whose
\* AllowedValues, AllowedPattern and MinValue all reject the empty value
C5_Witness ==
    /\ pc = "done"
    /\ arg_value = <<>>
    /\ arg_param_def.HasDefault
    /\ arg_param_def.Type = Some("Number")
    /\ arg_param_def.AllowedValues # <<>>
    /\ arg_param_def.AllowedPattern = Pat_azFull
    /\ arg_param_def.MinValue = Some(1)
    /\ validation_result.valid

\* the whole value matches the pattern (the three patterns in closed form)
FullMatch(pattern, value) ==
    IF pattern = Pat_z THEN value # <<>> /\ value[1] = "z"
    ELSE value # <<>> /\ \A i \in Idx(value) : value[i] \in Lower

\* C6: with an AllowedPattern, a non-empty value is accepted only if the whole
\* value matches the pattern; a value of which only a prefix matches is
\* invalid, with the reason that includes the pattern.
C6_FullMatch ==
    (pc = "done" /\ arg_param_def.AllowedPattern # NoPattern /\ arg_value # <<>>) =>
        /\ validation_result.valid => FullMatch(arg_param_def.AllowedPattern, arg_value)
        /\ (InAllowedValues /\ ~FullMatch(arg_param_def.AllowedPattern, arg_value)) =>
                validation_result.reason
                    = <<"Value must match pattern", arg_param_def.AllowedPattern>>

\* n is a number (not nan) with MinValue <= n <= MaxValue
NumberInRange(n, param_def) ==
    /\ n.kind \in {"fin", "inf"}
    /\ ~FloatLt(n, MinValueOf(param_def))
    /\ ~FloatLt(MaxValueOf(param_def), n)

\* C7: for a Number-family definition without AllowedValues and
\* AllowedPattern (and a value that rule (1) does not decide), the value is
\* valid iff it parses as a number n with MinValue <= n <= MaxValue; above
\* MaxValue the reason names the maximum, below MinValue the minimum, and a
\* non-numeric value gets the 'must be a number' reason.
C7_NumberRange ==
    (/\ pc = "done"
     /\ TypeOf(arg_param_def) \in NumberTypes
     /\ arg_param_def.AllowedValues = <<>>
     /\ arg_param_def.AllowedPattern = NoPattern
     /\ ~EmptyWithDefault) =>
        LET n == ParseFloat(arg_value)
        IN  /\ validation_result.valid <=> NumberInRange(n, arg_param_def)
            /\ n = ValueError => ReasonText = "Value must be a number"
            /\ (n.kind \in {"fin", "inf"} /\ FloatLt(MaxValueOf(arg_param_def), n)) =>
                    validation_result.reason
                        = <<"Number must be no more than", MaxValueOf(arg_param_def)>>
            /\ (n.kind \in {"fin", "inf"} /\ FloatLt(n, MinValueOf(arg_param_def))) =>
                    validation_result.reason
                        = <<"Number must be at least", MinValueOf(arg_param_def)>>

ResourceTypes ==
    {"AWS::EC2::KeyPair::KeyName", "AWS::EC2::VPC::Id", "AWS::EC2::Subnet::Id",
     "AWS::EC2::SecurityGroup::Id"}

\* the literal prefix a resource-reference type requires ("" for a key pair)
RequiredPrefix(type) ==
    IF type = "AWS::EC2::VPC::Id" THEN <<"v","p","c","-">>
    ELSE IF type = "AWS::EC2::Subnet::Id" THEN <<"s","u","b","n","e","t","-">>
    ELSE IF type = "AWS::EC2::SecurityGroup::Id" THEN <<"s","g","-">>
    ELSE <<>>

HasRequiredPrefix ==
    LET prefix == RequiredPrefix(TypeOf(arg_param_def))
    IN  /\ Len(arg_value) >= Len(prefix)
        /\ \A i \in Idx(prefix) : arg_value[i] = prefix[i]

\* C8 as stated: for every resource-reference type an empty value is reported
\* invalid, and for the VPC, subnet and security-group types so is every value
\* that does not start with 'vpc-', 'subnet-' or 'sg-'.
C8_EmptyOrUnprefixedInvalid ==
    (pc = "done" /\ TypeOf(arg_param_def) \in ResourceTypes) =>
        /\ arg_value = <<>> => ~validation_result.valid
        /\ ~HasRequiredPrefix => ~validation_result.valid

\* C8 amended: for every resource-reference type an empty value is reported
\* invalid unless the definition declares a Default (rule (1) then reports it
\* valid), and for the VPC, subnet and security-group types every value
\* without the required prefix is reported invalid, except the empty value
\* when the definition declares a Default.
C8_InvalidUnlessEmptyWithDefault ==
    (pc = "done" /\ TypeOf(arg_param_def) \in ResourceTypes) =>
        /\ EmptyWithDefault => validation_result.valid
        /\ (arg_value = <<>> /\ ~arg_param_def.HasDefault) => ~validation_result.valid
        /\ (~HasRequiredPrefix /\ ~EmptyWithDefault) => ~validation_result.valid

\* a subnet id without the 'subnet-' prefix, with a Default declared and no
\* AllowedValues or AllowedPattern, rejected by the type check
C8_Witness ==
    /\ pc = "done"
    /\ arg_param_def.Type = Some("AWS::EC2::Subnet::Id")
    /\ arg_param_def.HasDefault
    /\ arg_param_def.AllowedValues = <<>>
    /\ arg_param_def.AllowedPattern = NoPattern
    /\ arg_value = <<"v","p","c","-","1">>
    /\ ~validation_result.valid

\* C9: for a String-family definition without AllowedValues and
\* AllowedPattern, a non-empty value is valid iff MinLength <= len(value) <=
\* MaxLength, a missing MinLength being 0 and a missing MaxLength no bound.
C9_StringLength ==
    (/\ pc = "done"
     /\ TypeOf(arg_param_def) \in StringTypes
     /\ arg_param_def.AllowedValues = <<>>
     /\ arg_param_def.AllowedPattern = NoPattern
     /\ arg_value # <<>>) =>
        (validation_result.valid <=>
            /\ arg_param_def.MinLength # None => Get(arg_param_def.MinLength) <= Len(arg_value)
            /\ arg_param_def.MaxLength # None => Len(arg_value) <= Get(arg_param_def.MaxLength))

\* a value whose length equals the declared MaxLength (3), with MinLength 2,
\* reported valid
C9_Witness ==
    /\ pc = "done"
    /\ TypeOf(arg_param_def) \in StringTypes
    /\ arg_param_def.AllowedValues = <<>>
    /\ arg_param_def.AllowedPattern = NoPattern
    /\ arg_param_def.MinLength = Some(2)
    /\ arg_param_def.MaxLength = Some(3)
    /\ Len(arg_value) = 3
    /\ validation_result.valid

(***************************************************************************)
(* compare_configurations.  A configuration is                              *)
(*   [atlantis |-> deploy parameters, deployments |-> stage -> section],    *)
(* a section being [parameter_overrides |-> dict, tags |-> tag list]; the   *)
(* dictionaries are functions of their keys (the code only reads them by    *)
(* key and sorts the keys).  Values are strings; the value a TOML file      *)
(* gives as a boolean is the string str() makes of it.                      *)
(***************************************************************************)
NoSection == [parameter_overrides |-> <<>>, tags |-> <<>>]

\* config.get('deployments', {}).get(stage, {}).get('deploy', {}).get('parameters', {})
SectionOf(config, stage) ==
    IF stage \in DOMAIN config.deployments
    THEN config.deployments[stage] ELSE NoSection

\* d.get(key)
Lookup(d, key) == IF key \in DOMAIN d THEN Some(d[key]) ELSE None

\* format_value(value)
format_value(v) == IF v # None THEN Get(v) ELSE "None"

\* d[key] = value on a dictionary held as a function
Assign(d, key, v) ==
    [k \in DOMAIN d \cup {key} |-> IF k = key THEN v ELSE d[k]]

\* {tag['Key']: tag['Value'] for tag in tags} as a function of the keys
TagsAsDict(tags) ==
    LET td == TagDictOf(tags)
    IN  [key \in {td[i].Key : i \in Idx(td)} |->
            td[CHOOSE i \in Idx(td) : td[i].Key = key].Value]

\* the comparison without the block 'copy non-essentials over'
CopyNonEssentials_nocopy(local_atlantis_params, stack_atlantis_params) ==
    stack_atlantis_params

\* the block 'copy non-essentials over': stack_atlantis_params after it
CopyNonEssentials(local_atlantis_params, stack_atlantis_params) ==
    LET s1 == IF "confirm_changeset" \in DOMAIN local_atlantis_params
              THEN Assign(stack_atlantis_params, "confirm_changeset",
                          local_atlantis_params["confirm_changeset"])
              ELSE stack_atlantis_params
    IN  IF "s3_bucket" \in DOMAIN local_atlantis_params
        THEN Assign(s1, "s3_bucket", local_atlantis_params["s3_bucket"])
        ELSE s1

\* the loop over one section's keys: `if local_value != stack_value:
\* differences = True`
AnyDifference(local, stack) ==
    \E key \in DOMAIN local \cup DOMAIN stack :
        Lookup(local, key) # Lookup(stack, key)

\* print_comparison for every key of one section: the two strings printed and
\* whether they are printed as matching
Printed(local, stack) ==
    [key \in DOMAIN local \cup DOMAIN stack |->
        LET local_str == format_value(Lookup(local, key))
            stack_str == format_value(Lookup(stack, key))
        IN  [local |-> local_str, stack |-> stack_str,
             match |-> (local_str = stack_str)]]

(***************************************************************************)
(* Specification SpecCompare: compare_configurations on a local             *)
(* configuration read from samconfig and a deployed configuration as        *)
(* get_stack_config builds it                                               *)
(***************************************************************************)
\* every function from a subset of keys to values
PartialFns(keys, values) == UNION {[ks -> values] : ks \in SUBSET keys}

ParamValues == {"us-east-1", "us-west-2", "None"}
ParamDicts  == PartialFns({"Region"}, ParamValues)

CompareTag      == [Key : {K_Owner}, Value : {"v1", "None"}]
LocalTagLists   == SeqsUpTo(CompareTag, MaxTags)
StackTagLists   == SeqsUpTo(CompareTag, 1)

LocalAtlantis ==
    {[k \in ks |-> IF k = "region" THEN r
                   ELSE IF k = "confirm_changeset" THEN "True"
                   ELSE IF k = "s3_bucket" THEN "bucket-1"
                   ELSE IF k = "capabilities" THEN "CAPABILITY_NAMED_IAM"
                   ELSE "./templates/t.yml"] :
        ks \in SUBSET {"region", "confirm_changeset", "s3_bucket", "template_file",
                       "capabilities"},
        r \in {"r1", "r2"}}

\* get_stack_config: capabilities and region always, template_file when the
\* stack carries the atlantis:TemplateFile tag
StackAtlantis ==
    {[k \in ks |-> IF k = "region" THEN r
                   ELSE IF k = "capabilities" THEN "CAPABILITY_NAMED_IAM"
                   ELSE "./templates/t.yml"] :
        ks \in {{"region", "capabilities"}, {"region", "capabilities", "template_file"}},
        r \in {"r1", "r2"}}

Sections(tagLists) == [parameter_overrides : ParamDicts, tags : tagLists]

LocalConfigs ==
    {[atlantis |-> a, deployments |-> d] :
        a \in LocalAtlantis,
        d \in {[st \in {"dev"} |-> sec] : sec \in Sections(LocalTagLists)}
              \cup {[st \in {"prod"} |-> NoSection]}}

StackConfigs ==
    {[atlantis |-> a, deployments |-> [st \in {"dev"} |-> sec]] :
        a \in StackAtlantis, sec \in Sections(StackTagLists)}

InitCompare ==
    /\ pc = "start"
    /\ stage_id = "dev"
    /\ local_config \in LocalConfigs
    /\ stack_config \in StackConfigs
    /\ differences = FALSE
    /\ comparison = <<>>
    /\ IdleTags
    /\ IdleDefaults
    /\ IdleValidate
    /\ IdleMain
    /\ IdleSave
    /\ IdleOverrides
    /\ IdleTagString
    /\ IdleGen
    /\ IdlePrompt
    /\ IdleRead
    /\ IdleBuild

\* ConfigManager.compare_configurations(local_config, stack_config) for the
\* stage self.stage_id: the flag returned, the deployed configuration as the
\* call leaves it (the copied keys are written into the caller's dictionary)
\* and the comparison printed
compare_configurations(local, stack, stage) ==
    LET local_params              == SectionOf(local, stage)
        local_parameter_overrides == local_params.parameter_overrides
        local_atlantis_params     == local.atlantis
        stack_params              == SectionOf(stack, stage)
        stack_parameter_overrides == stack_params.parameter_overrides
        stack_atlantis_params     ==
            CopyNonEssentials(local_atlantis_params, stack.atlantis)
        local_tags_dict           == TagsAsDict(local_params.tags)
        stack_tags_dict           == TagsAsDict(stack_params.tags)
    IN  [stack_config |-> [stack EXCEPT !.atlantis = stack_atlantis_params],
         differences |->
            \/ AnyDifference(local_parameter_overrides, stack_parameter_overrides)
            \/ AnyDifference(local_atlantis_params, stack_atlantis_params)
            \/ AnyDifference(local_tags_dict, stack_tags_dict),
         comparison |->
            [parameter_overrides |->
                Printed(local_parameter_overrides, stack_parameter_overrides),
             atlantis |-> Printed(local_atlantis_params, stack_atlantis_params),
             tags |-> Printed(local_tags_dict, stack_tags_dict)]]

\* one call of compare_configurations(local_config, stack_config)
CompareConfigurations ==
    /\ pc = "start"
    /\ LET r == compare_configurations(local_config, stack_config, stage_id)
       IN  /\ stack_config' = r.stack_config
           /\ differences' = r.differences
           /\ comparison' = r.comparison
    /\ pc' = "done"
    /\ UNCHANGED <<stage_id, local_config, tagVars, defaultsVars, validateVars, mainVars, saveVars, overridesVars, tagStringVars, genVars, promptVars, readVars, buildVars>>

NextCompare == CompareConfigurations

SpecCompare == InitCompare /\ [][NextCompare]_vars

\* some entry of the printed comparison is shown as a mismatch
SomeMismatchPrinted ==
    \E sec \in {"parameter_overrides", "atlantis", "tags"} :
        \E key \in DOMAIN comparison[sec] : ~comparison[sec][key].match

\* C10: compare_configurations returns True iff some key of the parameter
\* overrides, the deploy parameters or the tags has a local and a remote value
\* that differ as strings with an absent value read as 'None': the flag agrees
\* with the match/mismatch entries printed.
C10_FlagAgreesWithReport ==
    pc = "done" => (differences <=> SomeMismatchPrinted)

\* the deploy parameters the comparison is documented to disregard
NonEssentials == {"confirm_changeset", "s3_bucket"}

\* a dictionary without the given keys
Without(d, keys) == [k \in DOMAIN d \ keys |-> d[k]]

\* the two configurations agree for the stage on the parameter overrides, the
\* tags and every deploy parameter other than the non-essential ones
EqualExceptNonEssentials(local, stack, stage) ==
    /\ SectionOf(local, stage) = SectionOf(stack, stage)
    /\ Without(local.atlantis, NonEssentials) = Without(stack.atlantis, NonEssentials)

LookupErrors == {"ValidationError", "UnauthorizedException", "ClientError",
                 "Exception"}

ChooseAnswers == {"Local", "Deployed", "Cancel"}
ImportAnswers == {"Yes", "No", "Cancel"}

\* choice.lower()
lower(answer) ==
    CASE answer = "Local"    -> "local"
      [] answer = "Deployed" -> "deployed"
      [] answer = "Cancel"   -> "cancel"
      [] answer = "Yes"      -> "yes"
      [] answer = "No"       -> "no"

\* a prompt of compare_against_stack that never exits the run
Cancelled_never(answer) == FALSE

\* `if choice.lower() == 'cancel': ... sys.exit(1)`, in both prompts
Cancelled(answer) == lower(answer) = "cancel"

\* a reconciliation that takes the deployed configuration whatever the answer
Chosen_deployed(answer, local, stack) == stack

\* `elif choice.lower() == 'deployed': local_config = stack_config` and
\* `elif choice.lower() == 'yes': local_config = stack_config`: the
\* configuration compare_against_stack returns after the answer
Chosen(answer, local, stack) ==
    IF lower(answer) \in {"deployed", "yes"} THEN stack ELSE local

\* read_samconfig returns None (no file, or a file it could not read) or the
\* configuration
InitMain ==
    /\ pc = "main"
    /\ stage_id = "dev"
    /\ local_config \in {None} \cup LocalConfigs
    /\ read_config = local_config
    /\ check_stack \in BOOLEAN
    /\ stack_config = <<>>
    /\ differences = FALSE
    /\ comparison = <<>>
    /\ lookup = ""
    /\ choice = ""
    /\ saved = FALSE
    /\ exited = FALSE
    /\ IdleTags
    /\ IdleDefaults
    /\ IdleValidate
    /\ IdleSave
    /\ IdleOverrides
    /\ IdleTagString
    /\ IdleGen
    /\ IdlePrompt
    /\ IdleRead
    /\ IdleBuild

\* main: `if check_stack:` is false
SkipCheck ==
    /\ pc = "main"
    /\ ~check_stack
    /\ pc' = "configure"
    /\ UNCHANGED <<tagVars, defaultsVars, validateVars, compareVars, mainVars, saveVars, overridesVars, tagStringVars, genVars, promptVars, readVars, buildVars>>

\* get_stack_config: describe_stacks answers with the stack
GetStackConfig ==
    /\ pc = "main"
    /\ check_stack
    /\ \E stack_info \in StackConfigs : stack_config' = stack_info
    /\ lookup' = "found"
    /\ pc' = "reconcile"
    /\ UNCHANGED <<stage_id, local_config, differences, comparison, check_stack,
                   choice, read_config, saved, exited,
                   tagVars, defaultsVars, validateVars, saveVars, overridesVars, tagStringVars, genVars, promptVars, readVars, buildVars>>

\* get_stack_config: describe_stacks raises; every except branch ends in
\* sys.exit(1), the 'ValidationError' of a stack that does not exist too
GetStackConfigError ==
    /\ pc = "main"
    /\ check_stack
    /\ \E error_code \in LookupErrors : lookup' = error_code
    /\ exited' = TRUE
    /\ pc' = "exit"
    /\ UNCHANGED <<compareVars, check_stack, choice, read_config, saved,
                   tagVars, defaultsVars, validateVars, saveVars, overridesVars, tagStringVars, genVars, promptVars, readVars, buildVars>>

\* compare_against_stack from the return of get_stack_config to its prompt or
\* its return (a stack_config that was returned is never empty)
Reconcile ==
    /\ pc = "reconcile"
    /\ IF local_config # None
       THEN LET r == compare_configurations(local_config, stack_config, stage_id)
            IN  /\ stack_config' = r.stack_config
                /\ differences' = r.differences
                /\ comparison' = r.comparison
                /\ pc' = IF r.differences THEN "choose" ELSE "configure"
       ELSE /\ pc' = "import"
            /\ UNCHANGED <<stack_config, differences, comparison>>
    /\ UNCHANGED <<stage_id, local_config, mainVars,
                   tagVars, defaultsVars, validateVars, saveVars, overridesVars, tagStringVars, genVars, promptVars, readVars, buildVars>>

\* the prompt "Choose configuration to use"
ChooseConfiguration ==
    /\ pc = "choose"
    /\ \E answer \in ChooseAnswers :
        /\ choice' = answer
        /\ IF Cancelled(answer)
           THEN exited' = TRUE /\ pc' = "exit" /\ UNCHANGED local_config
           ELSE /\ local_config' = Chosen(answer, local_config, stack_config)
                /\ pc' = "configure"
                /\ UNCHANGED exited
    /\ UNCHANGED <<stage_id, stack_config, differences, comparison, check_stack,
                   lookup, read_config, saved,
                   tagVars, defaultsVars, validateVars, saveVars, overridesVars, tagStringVars, genVars, promptVars, readVars, buildVars>>

\* the prompt "Import deployed stack?"
ImportDeployedStack ==
    /\ pc = "import"
    /\ \E answer \in ImportAnswers :
        /\ choice' = answer
        /\ IF Cancelled(answer)
           THEN exited' = TRUE /\ pc' = "exit" /\ UNCHANGED local_config
           ELSE /\ local_config' = Chosen(answer, local_config, stack_config)
                /\ pc' = "configure"
                /\ UNCHANGED exited
    /\ UNCHANGED <<stage_id, stack_config, differences, comparison, check_stack,
                   lookup, read_config, saved,
                   tagVars, defaultsVars, validateVars, saveVars, overridesVars, tagStringVars, genVars, promptVars, readVars, buildVars>>

\* main from the template selection to the return of save_config
ConfigureAndSave ==
    /\ pc = "configure"
    /\ saved' = TRUE
    /\ pc' = "done"
    /\ UNCHANGED <<compareVars, check_stack, lookup, choice, read_config, exited,
                   tagVars, defaultsVars, validateVars, saveVars, overridesVars, tagStringVars, genVars, promptVars, readVars, buildVars>>

\* main from the template selection on, ended before save_config has written:
\* '^' at a prompt, a cancelled template selection, a failed save
ExitWhileConfiguring ==
    /\ pc = "configure"
    /\ exited' = TRUE
    /\ pc' = "exit"
    /\ UNCHANGED <<compareVars, check_stack, lookup, choice, read_config, saved,
                   tagVars, defaultsVars, validateVars, saveVars, overridesVars, tagStringVars, genVars, promptVars, readVars, buildVars>>

NextMain ==
    \/ SkipCheck
    \/ GetStackConfig
    \/ GetStackConfigError
    \/ Reconcile
    \/ ChooseConfiguration
    \/ ImportDeployedStack
    \/ ConfigureAndSave
    \/ ExitWhileConfiguring

SpecMain == InitMain /\ [][NextMain]_vars

\* C12: when describe_stacks answers that the stack does not exist
\* (ValidationError), the run is not ended: the workflow continues with the
\* local configuration.
C12_NotFoundContinues ==
    lookup = "ValidationError" => (~exited /\ pc # "exit")

\* C13: once the user has answered 'Cancel' to either prompt of
\* compare_against_stack, the run is ended and save_config is not executed in
\* any later state.
C13_CancelNeverSaves ==
    choice = "Cancel" => (exited /\ pc = "exit" /\ ~saved)

\* the import prompt was answered 'Cancel' and the run has ended
C13_Witness ==
    /\ choice = "Cancel"
    /\ read_config = None
    /\ lookup = "found"
    /\ exited

\* compare_against_stack has returned
Reconciled == check_stack /\ pc \in {"configure", "done"}

\* C14: compare_against_stack never resolves a conflict by itself.  When it
\* has returned: if the comparison found differences the user was asked
\* (Local or Deployed was answered); the configuration carried forward
\* differs from the one read only after 'Deployed' (or 'Yes' to the import
\* prompt when nothing was read), and is then the deployed one; after
\* 'Local', 'No' or a comparison without differences it is the one read.
C14_UserDecides ==
    Reconciled =>
        /\ differences => choice \in {"Local", "Deployed"}
        /\ local_config # read_config =>
                choice \in {"Deployed", "Yes"} /\ local_config = stack_config
        /\ (choice \in {"Local", "No"} \/ (read_config # None /\ ~differences))
                => local_config = read_config

\* a run saved with the deployed configuration after the answer 'Deployed'
C14_Witness ==
    /\ pc = "done"
    /\ check_stack
    /\ differences
    /\ choice = "Deployed"
    /\ local_config = stack_config
    /\ local_config # read_config

(***************************************************************************)
(* Specification SpecSave: the order in which save_config writes the       *)
(* deployment sections.  A stage id is a character sequence (the sort key  *)
(* reads its first character); config['deployments'] is a dict, so its     *)
(* keys are distinct and come in insertion order.                          *)
(***************************************************************************)
MaxStages == 5      \* most stages in config['deployments']

S_dev2    == <<"d","e","v","2">>
S_demo    == <<"d","e","m","o">>
S_test1   == <<"t","e","s","t","1">>
S_build   == <<"b","u","i","l","d">>
S_staging == <<"s","t","a","g","i","n","g">>
S_prod    == <<"p","r","o","d">>
S_qa      == <<"q","a">>

StageIds == {S_dev2, S_demo, S_test1, S_build, S_staging, S_prod, S_qa}

\* the sequences of distinct stage ids
StageOrders ==
    {order \in SeqsUpTo(StageIds, MaxStages) :
        \A i, j \in Idx(order) : order[i] = order[j] => i = j}

\* a sort key that knows no build stage
sort_key_nobuild(x) ==
    <<x[1] # "d", x[1] # "t", x[1] # "s", x[1] # "p">>

\* key=lambda x: (x[0] != 'd', x[0] != 't', x[0] != 'b', x[0] != 's', x[0] != 'p')
sort_key(x) ==
    <<x[1] # "d", x[1] # "t", x[1] # "b", x[1] # "s", x[1] # "p">>

\* a < b for tuples of booleans of one length: lexicographic, False < True
TupleLess(a, b) ==
    \E i \in Idx(a) :
        /\ ~a[i] /\ b[i]
        /\ \A j \in 1..(i - 1) : a[j] = b[j]

\* x put into a list sorted by key, behind every element whose key is not
\* greater (sorted() is stable)
RECURSIVE InsertByKey(_, _)
InsertByKey(list, x) ==
    IF list = <<>> THEN <<x>>
    ELSE IF TupleLess(sort_key(x), sort_key(Head(list)))
         THEN <<x>> \o list
         ELSE <<Head(list)>> \o InsertByKey(Tail(list), x)

\* sorted(config.get('deployments', {}), key=...)
RECURSIVE SortedFrom(_, _)
SortedFrom(done, rest) ==
    IF rest = <<>> THEN done
    ELSE SortedFrom(InsertByKey(done, Head(rest)), Tail(rest))

sorted(keys) == SortedFrom(<<>>, keys)

InitSave ==
    /\ pc = "start"
    /\ deployment_stages \in StageOrders
    /\ written_stages = <<>>
    /\ IdleTags
    /\ IdleDefaults
    /\ IdleValidate
    /\ IdleCompare
    /\ IdleMain
    /\ IdleOverrides
    /\ IdleTagString
    /\ IdleGen
    /\ IdlePrompt
    /\ IdleRead
    /\ IdleBuild

\* save_config: the loop that writes one section per stage (what a section
\* holds is the subject of SpecOverrides and SpecTagString)
SaveConfig ==
    /\ pc = "start"
    /\ written_stages' = sorted(deployment_stages)
    /\ pc' = "done"
    /\ UNCHANGED <<deployment_stages, tagVars, defaultsVars, validateVars,
                   compareVars, mainVars, overridesVars, tagStringVars, genVars, promptVars, readVars, buildVars>>

NextSave == SaveConfig

SpecSave == InitSave /\ [][NextSave]_vars

\* the place of a stage id in the documented order: d, t, b, s, p, others
Rank(x) ==
    CASE x[1] = "d" -> 1
      [] x[1] = "t" -> 2
      [] x[1] = "b" -> 3
      [] x[1] = "s" -> 4
      [] x[1] = "p" -> 5
      [] OTHER      -> 6

Elements(list) == {list[i] : i \in Idx(list)}

ExampleStages == {S_prod, S_test1, S_dev2, S_build, S_staging}

\* C15: save_config writes every stage once, ordered by the first character
\* of the stage id: d, then t, b, s, p, then any other; the stages prod,
\* test1, dev2, build, staging are written as dev2, test1, build, staging,
\* prod.
C15_StageOrder ==
    pc = "done" =>
        /\ Len(written_stages) = Len(deployment_stages)
        /\ Elements(written_stages) = Elements(deployment_stages)
        /\ \A i, j \in Idx(written_stages) :
                i < j => Rank(written_stages[i]) <= Rank(written_stages[j])
        /\ Elements(deployment_stages) = ExampleStages =>
                written_stages = <<S_dev2, S_test1, S_build, S_staging, S_prod>>

\* the documented example, entered in the order prod, test1, dev2, build,
\* staging and written sorted
C15_Witness ==
    /\ pc = "done"
    /\ deployment_stages = <<S_prod, S_test1, S_dev2, S_build, S_staging>>
    /\ written_stages = <<S_dev2, S_test1, S_build, S_staging, S_prod>>

(***************************************************************************)
(* shlex in POSIX mode with whitespace_split = True and no commenters, as  *)
(* shlex.split(s) and the lexer of parse_tags set it up.  A string is a    *)
(* character sequence.  Among the characters of the inputs the lexer tells *)
(* apart the whitespace (the space), the escape (the backslash) and the    *)
(* two quotes; every other character is part of a word (with               *)
(* whitespace_split the wordchars make no difference).                     *)
(***************************************************************************)
MaxValueLen == 2    \* longest value of a parameter override or a tag

DQuote    == "\""
SQuote    == "'"
Backslash == "\\"
Equals    == "="

whitespace    == {Space}
escape        == {Backslash}
quotes        == {DQuote, SQuote}
escapedquotes == {DQuote}

\* list(lexer): the tokens, or the ValueError read_token raises.  state is
\* lexer.state (" ", "a", a quote or the escape), kept from one token to the
\* next; escapedstate, token and quoted belong to the token being read; the
\* character read at the end of the input is "".
RECURSIVE read_tokens(_, _, _, _, _, _, _)
read_tokens(s, i, state, escapedstate, token, quoted, tokens) ==
    LET nextchar == IF i <= Len(s) THEN s[i] ELSE ""
        \* `break` at the end of the input: the token is returned unless it
        \* is None, and the next read_token returns None
        AtEnd    == [error |-> None,
                     tokens |-> IF token # <<>> \/ quoted
                                THEN Append(tokens, token) ELSE tokens]
        \* `if self.token or (self.posix and quoted): break  else: continue`
        \* with lexer.state set to " "
        BreakOrContinue ==
            IF token # <<>> \/ quoted
            THEN read_tokens(s, i + 1, " ", " ", <<>>, FALSE, Append(tokens, token))
            ELSE read_tokens(s, i + 1, " ", escapedstate, token, quoted, tokens)
    IN  CASE state = " " ->
                IF nextchar = "" THEN AtEnd
                ELSE IF nextchar \in whitespace THEN BreakOrContinue
                ELSE IF nextchar \in escape
                     THEN read_tokens(s, i + 1, nextchar, "a", token, quoted, tokens)
                ELSE IF nextchar \in quotes
                     THEN read_tokens(s, i + 1, nextchar, escapedstate, token,
                                      quoted, tokens)
                ELSE read_tokens(s, i + 1, "a", escapedstate, <<nextchar>>,
                                 quoted, tokens)
          [] state \in quotes ->
                IF nextchar = ""
                THEN [error |-> Some("No closing quotation"), tokens |-> <<>>]
                ELSE IF nextchar = state
                     THEN read_tokens(s, i + 1, "a", escapedstate, token, TRUE, tokens)
                ELSE IF nextchar \in escape /\ state \in escapedquotes
                     THEN read_tokens(s, i + 1, nextchar, state, token, TRUE, tokens)
                ELSE read_tokens(s, i + 1, state, escapedstate,
                                 Append(token, nextchar), TRUE, tokens)
          [] state \in escape ->
                IF nextchar = ""
                THEN [error |-> Some("No escaped character"), tokens |-> <<>>]
                ELSE LET kept == IF /\ escapedstate \in quotes
                                    /\ nextchar # state
                                    /\ nextchar # escapedstate
                                 THEN Append(token, state) ELSE token
                     IN  read_tokens(s, i + 1, escapedstate, escapedstate,
                                     Append(kept, nextchar), quoted, tokens)
          [] state = "a" ->
                IF nextchar = "" THEN AtEnd
                ELSE IF nextchar \in whitespace THEN BreakOrContinue
                ELSE IF nextchar \in quotes
                     THEN read_tokens(s, i + 1, nextchar, escapedstate, token,
                                      quoted, tokens)
                ELSE IF nextchar \in escape
                     THEN read_tokens(s, i + 1, nextchar, "a", token, quoted, tokens)
                ELSE read_tokens(s, i + 1, "a", escapedstate,
                                 Append(token, nextchar), quoted, tokens)

\* shlex.split(s), and list(lexer) in parse_tags
shlex_split(s) == read_tokens(s, 1, " ", " ", <<>>, FALSE, <<>>)

\* '=' in part
HasEquals(part) == \E i \in Idx(part) : part[i] = Equals

\* part.split('=', 1) for a part that holds '=': [key, value]
SplitFirst(part) ==
    LET i == CHOOSE j \in Idx(part) :
                part[j] = Equals /\ \A m \in 1..(j - 1) : part[m] # Equals
    IN  [key |-> SubSeq(part, 1, i - 1), value |-> SubSeq(part, i + 1, Len(part))]

\* ' '.join(pieces)
RECURSIVE Join(_)
Join(pieces) ==
    IF pieces = <<>> THEN <<>>
    ELSE IF Len(pieces) = 1 THEN pieces[1]
    ELSE pieces[1] \o <<Space>> \o Join(Tail(pieces))

\* f'"{key}"="{value}"'
QuotedPair(key, value) ==
    <<DQuote>> \o key \o <<DQuote, Equals, DQuote>> \o value \o <<DQuote>>

\* ConfigManager.stringify_parameter_overrides(parameter_overrides_as_dict)
stringify_parameter_overrides(parameter_overrides_as_dict) ==
    Join([i \in Idx(parameter_overrides_as_dict) |->
            QuotedPair(parameter_overrides_as_dict[i].k,
                       parameter_overrides_as_dict[i].v)])

\* the loop `for part in parts:` of parse_parameter_overrides
RECURSIVE ParseParts(_, _)
ParseParts(parameters, parts) ==
    IF parts = <<>> THEN parameters
    ELSE LET part == Head(parts)
         IN  IF HasEquals(part)
             THEN ParseParts(DSet(parameters, Strip(SplitFirst(part).key),
                                  Strip(SplitFirst(part).value)),
                             Tail(parts))
             ELSE ParseParts(parameters, Tail(parts))

\* ConfigManager.parse_parameter_overrides(parameter_string); the exception
\* shlex.split raises is logged and the empty dictionary returned
parse_parameter_overrides(parameter_string) ==
    IF parameter_string = <<>> THEN <<>>
    ELSE LET lexed == shlex_split(parameter_string)
         IN  IF lexed.error # None THEN <<>>
             ELSE ParseParts(<<>>, lexed.tokens)

(***************************************************************************)
(* Specification SpecOverrides: the parameter overrides of a stage written *)
(* by save_config (stringify_parameter_overrides) and read back by         *)
(* read_samconfig (parse_parameter_overrides)                              *)
(***************************************************************************)
ValueChars == {"a", Space, DQuote, SQuote, Backslash, Equals}
Values     == SeqsUpTo(ValueChars, MaxValueLen)

P_A == <<"A">>
P_B == <<"B">>

\* the dictionaries with the parameters A and B, each present or not
OverridesDicts ==
    LET Entry(key, opt) ==
            IF opt = None THEN <<>> ELSE <<[k |-> key, v |-> Get(opt)]>>
        Opts == {None} \cup {Some(v) : v \in Values}
    IN  {Entry(P_A, a) \o Entry(P_B, b) : a \in Opts, b \in Opts}

InitOverrides ==
    /\ pc = "start"
    /\ overrides_dict \in OverridesDicts
    /\ overrides_string = <<>>
    /\ overrides_parsed = <<>>
    /\ IdleTags
    /\ IdleDefaults
    /\ IdleValidate
    /\ IdleCompare
    /\ IdleMain
    /\ IdleSave
    /\ IdleTagString
    /\ IdleGen
    /\ IdlePrompt
    /\ IdleRead
    /\ IdleBuild

\* save_config: `if isinstance(parameter_overrides, dict):` the string written
StringifyParameterOverrides ==
    /\ pc = "start"
    /\ overrides_string' = stringify_parameter_overrides(overrides_dict)
    /\ pc' = "written"
    /\ UNCHANGED <<overrides_dict, overrides_parsed, tagVars, defaultsVars,
                   validateVars, compareVars, mainVars, saveVars, tagStringVars, genVars, promptVars, readVars, buildVars>>

\* read_samconfig: `if isinstance(parameter_overrides, str):` the dictionary
\* parsed from the string
ParseParameterOverrides ==
    /\ pc = "written"
    /\ overrides_parsed' = parse_parameter_overrides(overrides_string)
    /\ pc' = "done"
    /\ UNCHANGED <<overrides_dict, overrides_string, tagVars, defaultsVars,
                   validateVars, compareVars, mainVars, saveVars, tagStringVars, genVars, promptVars, readVars, buildVars>>

NextOverrides ==
    \/ StringifyParameterOverrides
    \/ ParseParameterOverrides

SpecOverrides == InitOverrides /\ [][NextOverrides]_vars

\* C16: for every map m of parameter names to string values,
\* parse_parameter_overrides(stringify_parameter_overrides(m)) equals m
\* (dictionaries are equal when they hold the same entries).
C16_OverridesRoundTrip ==
    pc = "done" => Elements(overrides_parsed) = Elements(overrides_dict)

(***************************************************************************)
(* Specification SpecTagString: the tags of a stage written by save_config *)
(* (stringify_tags) and read back by read_samconfig (parse_tags).  Here a  *)
(* tag value is a character sequence, like the key.                        *)
(***************************************************************************)
\* str.strip(chars)
RECURSIVE StripChars(_, _)
StripChars(s, chars) ==
    IF s # <<>> /\ Head(s) \in chars THEN StripChars(Tail(s), chars)
    ELSE IF s # <<>> /\ s[Len(s)] \in chars
         THEN StripChars(SubSeq(s, 1, Len(s) - 1), chars)
    ELSE s

\* ConfigManager.stringify_tags(tags)
stringify_tags(tag_seq) ==
    Join([i \in Idx(tag_seq) |-> QuotedPair(tag_seq[i].Key, tag_seq[i].Value)])

\* parse_tags raised ValueError
Raised == [raised |-> TRUE, tags |-> <<>>]

\* the loop `for i in range(0, len(tokens), 1):` of parse_tags
RECURSIVE ParseTokens(_, _)
ParseTokens(tag_seq, tokens) ==
    IF tokens = <<>> THEN [raised |-> FALSE, tags |-> tag_seq]
    ELSE LET token == Head(tokens)
         IN  IF token = <<>> THEN ParseTokens(tag_seq, Tail(tokens))
             ELSE IF ~HasEquals(token) THEN Raised
             ELSE LET key   == StripChars(Strip(SplitFirst(token).key), quotes)
                      value == StripChars(Strip(SplitFirst(token).value), quotes)
                  IN  IF key = <<>> \/ value = <<>> THEN Raised
                      ELSE ParseTokens(Append(tag_seq, [Key |-> key, Value |-> value]),
                                       Tail(tokens))

\* ConfigManager.parse_tags(tag_string): the list returned, or the ValueError
\* raised (the lexer's ValueError is raised again as a ValueError)
parse_tags(tag_text) ==
    IF tag_text = <<>> THEN [raised |-> FALSE, tags |-> <<>>]
    ELSE LET lexed == shlex_split(tag_text)
         IN  IF lexed.error # None THEN Raised
             ELSE ParseTokens(<<>>, lexed.tokens)

StringTag == [Key : {K_Owner, K_Team}, Value : Values]

\* the tag lists without a repeated key
StringTagLists == {t \in SeqsUpTo(StringTag, MaxTags) : UniqueKeys(t)}

InitTagString ==
    /\ pc = "start"
    /\ tag_list \in StringTagLists
    /\ tag_string = <<>>
    /\ tags_parsed = <<>>
    /\ IdleTags
    /\ IdleDefaults
    /\ IdleValidate
    /\ IdleCompare
    /\ IdleMain
    /\ IdleSave
    /\ IdleOverrides
    /\ IdleGen
    /\ IdlePrompt
    /\ IdleRead
    /\ IdleBuild

\* save_config: `if isinstance(tags, list):` the string written
StringifyTags ==
    /\ pc = "start"
    /\ tag_string' = stringify_tags(tag_list)
    /\ pc' = "written"
    /\ UNCHANGED <<tag_list, tags_parsed, tagVars, defaultsVars, validateVars,
                   compareVars, mainVars, saveVars, overridesVars, genVars, promptVars, readVars, buildVars>>

\* read_samconfig: `if isinstance(tags, str):` the outcome of parse_tags
ParseTags ==
    /\ pc = "written"
    /\ tags_parsed' = parse_tags(tag_string)
    /\ pc' = "done"
    /\ UNCHANGED <<tag_list, tag_string, tagVars, defaultsVars, validateVars,
                   compareVars, mainVars, saveVars, overridesVars, genVars, promptVars, readVars, buildVars>>

NextTagString ==
    \/ StringifyTags
    \/ ParseTags

SpecTagString == InitTagString /\ [][NextTagString]_vars

\* C17: for every tag list t with unique keys, parse_tags(stringify_tags(t))
\* does not raise and returns exactly t.
C17_TagsRoundTrip ==
    pc = "done" => (~tags_parsed.raised /\ tags_parsed.tags = tag_list)

\* C18: the list merge_tags returns (which is the list generate_tags returns)
\* never holds the same key twice, whatever the two input lists are, lists
\* that repeat a key included.
C18_MergedKeysUnique ==
    pc = "done" => UniqueKeys(tag_result)

\* a merge of two lists that each repeat a key, one of them in both
C18_Witness ==
    /\ pc = "done"
    /\ ~UniqueKeys(original_tags)
    /\ ~UniqueKeys(new_tags)
    /\ KeysOf(original_tags) = KeysOf(new_tags)
    /\ Len(tag_result) = 1

(***************************************************************************)
(* Specification SpecGenTags: the tags of the current stage, from the tag  *)
(* defaults main puts together (the tags of the loaded defaults, merged    *)
(* with the tags of the local configuration when there is one) to the list *)
(* generate_tags builds in build_config.  Tag values are opaque strings;   *)
(* parameters is a function from parameter names to values.                *)
(***************************************************************************)
K_Atlantis ==
    <<"A","t","l","a","n","t","i","s">>
K_atlantis_Prefix ==
    <<"a","t","l","a","n","t","i","s",":","P","r","e","f","i","x">>
K_Provisioner ==
    <<"P","r","o","v","i","s","i","o","n","e","r">>
K_DeployedUsing ==
    <<"D","e","p","l","o","y","e","d","U","s","i","n","g">>
K_atlantis_TemplateVersion ==
    <<"a","t","l","a","n","t","i","s",":","T","e","m","p","l","a","t","e","V","e","r","s","i","o","n">>
K_atlantis_TemplateFile ==
    <<"a","t","l","a","n","t","i","s",":","T","e","m","p","l","a","t","e","F","i","l","e">>
K_atlantis_Application ==
    <<"a","t","l","a","n","t","i","s",":","A","p","p","l","i","c","a","t","i","o","n">>
K_Name ==
    <<"N","a","m","e">>
K_atlantis_ApplicationDeploymentId ==
    <<"a","t","l","a","n","t","i","s",":","A","p","p","l","i","c","a","t","i","o","n","D","e","p","l","o","y","m","e","n","t","I","d">>
K_Stage ==
    <<"S","t","a","g","e">>
K_Environment ==
    <<"E","n","v","i","r","o","n","m","e","n","t">>
K_AlarmNotificationEmail ==
    <<"A","l","a","r","m","N","o","t","i","f","i","c","a","t","i","o","n","E","m","a","i","l">>
K_CodeCommitRepository ==
    <<"C","o","d","e","C","o","m","m","i","t","R","e","p","o","s","i","t","o","r","y">>
K_CodeCommitBranch ==
    <<"C","o","d","e","C","o","m","m","i","t","B","r","a","n","c","h">>

\* the value None of a tag whose parameter is missing (not a str)
PyNone == "<None>"

\* self.infra_type, self.template_version, self.template_hash_id,
\* self.template_file of the run
infra_type       == "storage"
template_version == "v1.0"
template_hash_id == "abc123"
template_file    == "template-storage.yml"

\* parameters.get(name) is truthy
Truthy(parameters, name) ==
    name \in DOMAIN parameters /\ parameters[name] # ""

\* the names read as parameters[name] by the blocks whose test holds
RequiredNames(parameters) ==
    (IF Truthy(parameters, "ProjectId") THEN {"Prefix", "ProjectId"} ELSE {})
    \cup (IF Truthy(parameters, "StageId")
          THEN {"Prefix", "ProjectId", "StageId"} ELSE {})
    \cup (IF Truthy(parameters, "Repository") THEN {"CodeCommitRepository"} ELSE {})
    \cup (IF Truthy(parameters, "RepositoryBranch") THEN {"CodeCommitBranch"} ELSE {})

\* ConfigManager.generate_automated_tags(parameters): the list returned, or
\* the KeyError of a parameters[name] whose name is missing
generate_automated_tags(parameters) ==
    IF ~(RequiredNames(parameters) \subseteq DOMAIN parameters)
    THEN [raised |-> TRUE, tags |-> <<>>]
    ELSE [raised |-> FALSE,
          tags |->
            << [Key |-> K_Atlantis, Value |-> infra_type \o "-infrastructure"],
               [Key |-> K_atlantis_Prefix,
                Value |-> IF "Prefix" \in DOMAIN parameters
                          THEN parameters["Prefix"] ELSE PyNone],
               [Key |-> K_Provisioner, Value |-> "CloudFormation"],
               [Key |-> K_DeployedUsing, Value |-> "AWS SAM CLI"],
               [Key |-> K_atlantis_TemplateVersion,
                Value |-> template_version \o " " \o template_hash_id],
               [Key |-> K_atlantis_TemplateFile, Value |-> template_file] >>
            \o (IF Truthy(parameters, "ProjectId")
                THEN << [Key |-> K_atlantis_Application,
                         Value |-> parameters["Prefix"] \o "-"
                                   \o parameters["ProjectId"]],
                        [Key |-> K_Name,
                         Value |-> parameters["Prefix"] \o "-"
                                   \o parameters["ProjectId"]] >>
                ELSE <<>>)
            \o (IF Truthy(parameters, "StageId")
                THEN << [Key |-> K_atlantis_ApplicationDeploymentId,
                         Value |-> parameters["Prefix"] \o "-"
                                   \o parameters["ProjectId"] \o "-"
                                   \o parameters["StageId"]],
                        [Key |-> K_Stage, Value |-> parameters["StageId"]] >>
                ELSE <<>>)
            \o (IF Truthy(parameters, "DeployEnvironment")
                THEN <<[Key |-> K_Environment,
                        Value |-> parameters["DeployEnvironment"]]>>
                ELSE <<>>)
            \o (IF Truthy(parameters, "AlarmNotificationEmail")
                THEN <<[Key |-> K_AlarmNotificationEmail,
                        Value |-> parameters["AlarmNotificationEmail"]]>>
                ELSE <<>>)
            \o (IF Truthy(parameters, "Repository")
                THEN <<[Key |-> K_CodeCommitRepository,
                        Value |-> parameters["CodeCommitRepository"]]>>
                ELSE <<>>)
            \o (IF Truthy(parameters, "RepositoryBranch")
                THEN <<[Key |-> K_CodeCommitBranch,
                        Value |-> parameters["CodeCommitBranch"]]>>
                ELSE <<>>)]

\* generate_tags with the two lists handed to merge_tags the other way round
generate_tags_swapped(parameters, custom_tags) ==
    LET generated == generate_automated_tags(parameters)
    IN  IF generated.raised THEN generated
        ELSE [raised |-> FALSE, tags |-> merge_tags(custom_tags, generated.tags)]

\* ConfigManager.generate_tags(parameters, custom_tags)
generate_tags(parameters, custom_tags) ==
    LET generated == generate_automated_tags(parameters)
    IN  IF generated.raised THEN generated
        ELSE [raised |-> FALSE, tags |-> merge_tags(generated.tags, custom_tags)]

\* the parameter values of a run: every parameter the tags are made from is
\* missing, empty or set
ParameterMaps ==
    {[name \in names |->
        IF name \in empties THEN ""
        ELSE CASE name = "Prefix"                 -> "acme"
               [] name = "ProjectId"              -> "app"
               [] name = "StageId"                -> "dev"
               [] name = "DeployEnvironment"      -> "DEV"
               [] name = "AlarmNotificationEmail" -> "ops@example.com"
               [] name = "Repository"             -> "repo"
               [] name = "CodeCommitRepository"   -> "repo"
               [] name = "RepositoryBranch"       -> "main"
               [] name = "CodeCommitBranch"       -> "main"] :
        names \in SUBSET {"Prefix", "ProjectId", "StageId", "DeployEnvironment",
                          "Repository", "CodeCommitRepository"}
                 \cup {{"Prefix", "ProjectId", "AlarmNotificationEmail",
                        "RepositoryBranch", "CodeCommitBranch"},
                       {"Prefix", "RepositoryBranch"}},
        empties \in {{}, {"ProjectId"}}}

\* user tags: two generated keys (one protected, one not), a key of the
\* protected namespace that is not generated, and a key of the user's own
UserTagKeys == {K_atlantis_Application, K_Stage, K_atlantis_x, K_Owner}

DefaultsTagLists == SeqsUpTo([Key : UserTagKeys, Value : {"d1"}], MaxTags)
SavedTagLists    == SeqsUpTo([Key : UserTagKeys, Value : {"s1"}], MaxTags)

InitGenTags ==
    /\ pc = "start"
    /\ gen_parameters \in ParameterMaps
    /\ defaults_tags \in DefaultsTagLists
    /\ has_local \in BOOLEAN
    /\ local_tags \in IF has_local THEN SavedTagLists ELSE {<<>>}
    /\ tag_defaults = <<>>
    /\ automated_tags = <<>>
    /\ stage_tags = <<>>
    /\ IdleTags
    /\ IdleDefaults
    /\ IdleValidate
    /\ IdleCompare
    /\ IdleMain
    /\ IdleSave
    /\ IdleOverrides
    /\ IdleTagString
    /\ IdlePrompt
    /\ IdleRead
    /\ IdleBuild

\* main: `tag_defaults = defaults.get('tags', [])` and `if local_config:
\* tag_defaults = merge_tags(tag_defaults, <the local tags of the stage>)`
MergeTagDefaults ==
    /\ pc = "start"
    /\ tag_defaults' = IF has_local THEN merge_tags(defaults_tags, local_tags)
                       ELSE defaults_tags
    /\ pc' = "build"
    /\ UNCHANGED <<gen_parameters, defaults_tags, has_local, local_tags,
                   automated_tags, stage_tags, tagVars, defaultsVars,
                   validateVars, compareVars, mainVars, saveVars, overridesVars,
                   tagStringVars, promptVars, readVars, buildVars>>

\* build_config: `tags = self.generate_tags(parameter_values, tag_defaults)`;
\* a KeyError ends the run
GenerateTags ==
    /\ pc = "build"
    /\ LET built == generate_tags(gen_parameters, tag_defaults)
       IN  IF built.raised
           THEN pc' = "error" /\ UNCHANGED <<automated_tags, stage_tags>>
           ELSE /\ automated_tags' = generate_automated_tags(gen_parameters).tags
                /\ stage_tags' = built.tags
                /\ pc' = "done"
    /\ UNCHANGED <<gen_parameters, defaults_tags, has_local, local_tags,
                   tag_defaults, tagVars, defaultsVars, validateVars,
                   compareVars, mainVars, saveVars, overridesVars,
                   tagStringVars, promptVars, readVars, buildVars>>

NextGenTags ==
    \/ MergeTagDefaults
    \/ GenerateTags

SpecGenTags == InitGenTags /\ [][NextGenTags]_vars

\* the keys the user's layers (defaults files, saved local configuration) hold
UserKeys == KeysOf(defaults_tags) \cup KeysOf(local_tags)

\* the keys of the protected namespace
Protected(key) ==
    \/ StartsWith(key, <<"a","t","l","a","n","t","i","s",":">>)
    \/ StartsWith(key, <<"A","t","l","a","n","t","i","s">>)

\* C19: in the tag list built for the stage, every generated tag whose key
\* starts with 'atlantis:' or 'Atlantis' carries the generated value whatever
\* the defaults layers and the saved local configuration hold for that key;
\* a generated tag carries another value only if its key is unprotected and
\* the user's layers hold it; and every key of the user's layers is in the
\* list.
C19_GeneratedProtected ==
    pc = "done" =>
        /\ \A i \in Idx(automated_tags) :
            LET key == automated_tags[i].Key
            IN  /\ HasKey(stage_tags, key)
                /\ Protected(key) =>
                        ValueOf(stage_tags, key) = automated_tags[i].Value
                /\ ValueOf(stage_tags, key) # automated_tags[i].Value =>
                        (~Protected(key) /\ key \in UserKeys)
        /\ UserKeys \subseteq KeysOf(stage_tags)
        /\ \A key \in UserKeys \ KeysOf(automated_tags) :
                ValueOf(stage_tags, key) \in {"d1", "s1"}

\* a stage whose generated atlantis:Application tag kept its value although
\* both user layers hold the key, while the generated Stage tag was
\* overridden
C19_Witness ==
    /\ pc = "done"
    /\ K_atlantis_Application \in KeysOf(defaults_tags) \cap KeysOf(local_tags)
    /\ K_Stage \in KeysOf(local_tags)
    /\ HasKey(stage_tags, K_atlantis_Application)
    /\ ValueOf(stage_tags, K_atlantis_Application) = "acme-app"
    /\ HasKey(stage_tags, K_Stage)
    /\ ValueOf(stage_tags, K_Stage) = "s1"

C21_ComparisonIsPure ==
    [][/\ pc = "reconcile" =>
            (stack_config' = stack_config /\ local_config' = local_config)
       /\ (pc = "choose" /\ choice' = "Deployed") =>
            DOMAIN local_config'.atlantis \cap NonEssentials = {}]_vars

\* ---------------------------------------------------------------------------
\* the defaults the first n layer files resolve to when every layer that is
\* missing, or fails while being parsed or merged, contributes nothing
RECURSIVE Resolved(_)
Resolved(n) ==
    IF n = 0 THEN <<>>
    ELSE LET before == Resolved(n - 1)
             layer  == config_files[n]
         IN  IF layer.t = "dict" /\ ~deep_update_raises(before, layer.v)
             THEN deep_update(before, layer.v)
             ELSE before

\* the layers that are applied: they exist, decode to an object and merge
AppliedLayers ==
    {n \in Idx(config_files) :
        /\ config_files[n].t = "dict"
        /\ ~deep_update_raises(Resolved(n - 1), config_files[n].v)}

\* the applied layers that define the scalar key "region"
RegionLayers == {n \in AppliedLayers : DHas(config_files[n].v, "region")}

C23_FailedLayerSkipped ==
    Len(config_files) = Len(LayerNames) => defaults = Resolved(file_idx)

(***************************************************************************)
(* Specification SpecPrompt: prompt_for_parameters, one prompt at a time   *)
(***************************************************************************)
LowerLetters ==
    <<"a","b","c","d","e","f","g","h","i","j","k","l","m",
      "n","o","p","q","r","s","t","u","v","w","x","y","z">>
UpperLetters ==
    <<"A","B","C","D","E","F","G","H","I","J","K","L","M",
      "N","O","P","Q","R","S","T","U","V","W","X","Y","Z">>
Upper == {UpperLetters[i] : i \in Idx(UpperLetters)}

\* str.upper()
upper(s) ==
    [i \in Idx(s) |->
        IF \E j \in Idx(LowerLetters) : LowerLetters[j] = s[i]
        THEN UpperLetters[CHOOSE j \in Idx(LowerLetters) : LowerLetters[j] = s[i]]
        ELSE s[i]]

\* the strings of the prompt dialogue, as character sequences
S_acme    == <<"a","c","m","e">>
S_ACME    == <<"A","C","M","E">>
S_web     == <<"w","e","b">>
S_default == <<"d","e","f","a","u","l","t">>
S_dev     == <<"d","e","v">>
S_test    == <<"t","e","s","t">>
S_main    == <<"m","a","i","n">>
S_b2      == <<"b","2">>
S_DEV     == <<"D","E","V">>
S_TEST    == <<"T","E","S","T">>
S_PROD    == <<"P","R","O","D">>
Help      == <<"?">>
Exit      == <<"^">>
Clear     == <<"-">>

\* a dictionary of strings: d[k] = v added or replaced
Put(d, k, v) == [x \in DOMAIN d \cup {k} |-> IF x = k THEN v ELSE d[x]]

\* ConfigManager.calculate_stage_defaults(stage_id)
calculate_stage_defaults(stage) ==
    LET envValue == IF StartsWith(stage, <<"t">>) THEN S_TEST
                    ELSE IF StartsWith(stage, <<"d">>) THEN S_DEV
                    ELSE S_PROD
        branch   == IF stage = S_prod THEN S_main ELSE stage
    IN  [DeployEnvironment |-> envValue,
         CodeCommitBranch  |-> branch,
         RepositoryBranch  |-> branch]

\* '^[a-z][a-z0-9-]*$'
Pat_id == [atoms |-> <<Atom(Lower, "one"), Atom(Lower \cup Digits \cup {"-"}, "star")>>,
           dollar |-> TRUE]
\* '^[A-Z][A-Z0-9-]*$'
Pat_ID == [atoms |-> <<Atom(Upper, "one"), Atom(Upper \cup Digits \cup {"-"}, "star")>>,
           dollar |-> TRUE]

\* a String parameter of the template: its name, its definition and the
\* value of its Default key
TemplateParameter(name, has_default, default, allowed_values, allowed_pattern) ==
    [name |-> name,
     def  |-> [Type |-> Some("String"), MinLength |-> None, MaxLength |-> None,
               MinValue |-> None, MaxValue |-> None, HasDefault |-> has_default,
               AllowedValues |-> allowed_values, AllowedPattern |-> allowed_pattern],
     Default |-> default]

P_Prefix(d)         == TemplateParameter("Prefix", d, S_acme, <<>>, Pat_id)
P_PrefixUpper(d)    == TemplateParameter("PrefixUpper", d, S_ACME, <<>>, Pat_ID)
P_ProjectId         == TemplateParameter("ProjectId", FALSE, <<>>, <<>>, Pat_id)
P_StageId(d)        == TemplateParameter("StageId", d, S_prod, <<>>, Pat_id)
P_DeployEnvironment ==
    TemplateParameter("DeployEnvironment", TRUE, S_PROD, <<S_DEV, S_TEST, S_PROD>>, NoPattern)
P_RepositoryBranch  == TemplateParameter("RepositoryBranch", TRUE, <<>>, <<>>, NoPattern)
P_CodeCommitBranch  == TemplateParameter("CodeCommitBranch", TRUE, <<>>, <<>>, NoPattern)

\* the Parameters sections of the templates
Templates ==
    {<<P_Prefix(d), P_PrefixUpper(u), P_ProjectId, P_StageId(FALSE),
       P_DeployEnvironment, P_RepositoryBranch>> : d, u \in BOOLEAN}
    \cup
    {<<P_DeployEnvironment, P_StageId(d), P_CodeCommitBranch>> : d \in BOOLEAN}
    \cup
    {<<P_PrefixUpper(FALSE), P_Prefix(FALSE), P_ProjectId>>}

\* what the user types at a prompt; Enter gives the default offered
Typed == {Help, Exit, Clear, S_test, S_prod, S_b2, S_DEV}

\* 'name' in parameters
HasParam(name) ==
    \E i \in Idx(template_parameters) : template_parameters[i].name = name

\* parameter_defaults of main(): the stage defaults, updated with the
\* parameter_overrides of the defaults files and of the local configuration
ParameterDefaults(stage) ==
    LET stage_defaults == calculate_stage_defaults(stage)
        base == [n \in {"DeployEnvironment", "CodeCommitBranch", "RepositoryBranch"} |->
                    stage_defaults[n]]
    IN  {base, Put(base, "StageId", S_test), Put(base, "Prefix", S_acme)}

InitPrompt ==
    /\ pc = "setup"
    /\ template_parameters \in Templates
    /\ self_prefix = S_acme
    /\ self_project_id = S_web
    /\ self_stage_id \in {S_default, S_dev, S_test}
    /\ prompt_defaults \in ParameterDefaults(self_stage_id)
    /\ prompt_values = <<>>
    /\ param_idx = 0
    /\ default_value = <<>>
    /\ prompt_value = <<>>
    /\ prompt_error = ""
    /\ IdleTags
    /\ IdleDefaults
    /\ IdleValidate
    /\ IdleCompare
    /\ IdleMain
    /\ IdleSave
    /\ IdleOverrides
    /\ IdleTagString
    /\ IdleGen
    /\ IdleRead
    /\ IdleBuild

UnchangedByPrompt ==
    UNCHANGED <<tagVars, defaultsVars, validateVars, compareVars, mainVars, saveVars, overridesVars, tagStringVars, genVars, readVars, buildVars>>

\* the statements before the loop: prefix, project_id and stage_id are added
\* to defaults
PromptSetup ==
    /\ pc = "setup"
    /\ LET d1 == IF self_prefix # <<>> /\ HasParam("Prefix")
                 THEN Put(prompt_defaults, "Prefix", self_prefix) ELSE prompt_defaults
           d2 == IF self_prefix # <<>> /\ HasParam("PrefixUpper")
                 THEN Put(d1, "PrefixUpper", upper(self_prefix)) ELSE d1
           d3 == IF self_project_id # <<>> /\ HasParam("ProjectId")
                 THEN Put(d2, "ProjectId", self_project_id) ELSE d2
           d4 == IF self_stage_id # <<>> /\ self_stage_id # S_default /\ HasParam("StageId")
                 THEN Put(d3, "StageId", self_stage_id) ELSE d3
       IN  prompt_defaults' = d4
    /\ param_idx' = 1
    /\ pc' = "loop"
    /\ UNCHANGED <<template_parameters, prompt_values, default_value, prompt_value,
                   self_prefix, self_project_id, self_stage_id, prompt_error>>
    /\ UnchangedByPrompt

\* `if param_name == 'PrefixUpper': continue`
SkipPrefixUpper ==
    /\ pc = "loop"
    /\ param_idx <= Len(template_parameters)
    /\ template_parameters[param_idx].name = "PrefixUpper"
    /\ param_idx' = param_idx + 1
    /\ UNCHANGED <<pc, template_parameters, prompt_defaults, prompt_values, default_value,
                   prompt_value, self_prefix, self_project_id, self_stage_id, prompt_error>>
    /\ UnchangedByPrompt

\* default_value = defaults.get(param_name, param_def.get('Default', ''))
ReadDefault ==
    /\ pc = "loop"
    /\ param_idx <= Len(template_parameters)
    /\ LET param == template_parameters[param_idx]
       IN  /\ param.name # "PrefixUpper"
           /\ default_value' =
                IF param.name \in DOMAIN prompt_defaults THEN prompt_defaults[param.name]
                ELSE IF param.def.HasDefault THEN param.Default
                ELSE <<>>
    /\ pc' = "ask"
    /\ UNCHANGED <<template_parameters, prompt_defaults, prompt_values, param_idx,
                   prompt_value, self_prefix, self_project_id, self_stage_id, prompt_error>>
    /\ UnchangedByPrompt

\* the loop over the parameters is over: `return values`
ReturnValues ==
    /\ pc = "loop"
    /\ param_idx > Len(template_parameters)
    /\ pc' = "done"
    /\ UNCHANGED promptVars
    /\ UnchangedByPrompt

\* the answer '?': the help box is shown and the prompt is repeated
PromptHelp ==
    /\ pc = "ask"
    /\ prompt_value' = Help
    /\ UNCHANGED <<pc, template_parameters, prompt_defaults, prompt_values, param_idx,
                   default_value, self_prefix, self_project_id, self_stage_id, prompt_error>>
    /\ UnchangedByPrompt

\* the answer '^': click.Abort
PromptAbort ==
    /\ pc = "ask"
    /\ prompt_value' = Exit
    /\ prompt_error' = "Abort"
    /\ pc' = "exit"
    /\ UNCHANGED <<template_parameters, prompt_defaults, prompt_values, param_idx,
                   default_value, self_prefix, self_project_id, self_stage_id>>
    /\ UnchangedByPrompt

\* the answers that are validated: the default offered or a typed text,
\* '-' standing for the empty string
Answers == {IF typed = Clear THEN <<>> ELSE typed :
                typed \in ({default_value} \cup Typed) \ {Help, Exit}}

\* the answer does not validate: the reason is shown and the prompt repeated
RejectValue ==
    /\ pc = "ask"
    /\ \E value \in Answers :
        /\ ~validate_parameter(value, template_parameters[param_idx].def).valid
        /\ prompt_value' = value
    /\ UNCHANGED <<pc, template_parameters, prompt_defaults, prompt_values, param_idx,
                   default_value, self_prefix, self_project_id, self_stage_id, prompt_error>>
    /\ UnchangedByPrompt

\* the names whose defaults follow the stage
StageDefaultNames == {"DeployEnvironment", "RepositoryBranch", "CodeCommitBranch"}

\* the defaults after the StageId was changed from its default
RestagedDefaults(stage) ==
    [n \in DOMAIN prompt_defaults \cup {m \in StageDefaultNames : HasParam(m)} |->
        IF n \in StageDefaultNames /\ HasParam(n)
        THEN calculate_stage_defaults(stage)[n]
        ELSE prompt_defaults[n]]

\* the answer validates: it is stored, with what follows from a Prefix, a
\* ProjectId or a StageId; defaults['StageId'] raises KeyError when the
\* defaults hold no StageId
AcceptValue ==
    /\ pc = "ask"
    /\ \E value \in Answers :
        LET param_name == template_parameters[param_idx].name
            stored     == Put(prompt_values, param_name, value)
        IN  /\ validate_parameter(value, template_parameters[param_idx].def).valid
            /\ prompt_value' = value
            /\ prompt_values' =
                    IF param_name = "Prefix" /\ HasParam("PrefixUpper")
                    THEN Put(stored, "PrefixUpper", upper(value))
                    ELSE stored
            /\ self_prefix' = IF param_name = "Prefix" THEN value ELSE self_prefix
            /\ self_project_id' = IF param_name = "ProjectId" THEN value ELSE self_project_id
            /\ self_stage_id' = IF param_name = "StageId" THEN value ELSE self_stage_id
            /\ IF param_name = "StageId" /\ "StageId" \notin DOMAIN prompt_defaults
               THEN /\ prompt_error' = "KeyError"
                    /\ pc' = "exit"
                    /\ UNCHANGED <<prompt_defaults, param_idx>>
               ELSE /\ prompt_defaults' =
                            IF param_name = "StageId" /\ value # prompt_defaults["StageId"]
                            THEN RestagedDefaults(value)
                            ELSE prompt_defaults
                    /\ param_idx' = param_idx + 1
                    /\ pc' = "loop"
                    /\ UNCHANGED prompt_error
    /\ UNCHANGED <<template_parameters, default_value>>
    /\ UnchangedByPrompt

NextPrompt ==
    \/ PromptSetup
    \/ SkipPrefixUpper
    \/ ReadDefault
    \/ ReturnValues
    \/ PromptHelp
    \/ PromptAbort
    \/ RejectValue
    \/ AcceptValue

SpecPrompt == InitPrompt /\ [][NextPrompt]_vars

\* the definition of a parameter of the template
DefOf(name) ==
    (CHOOSE i \in Idx(template_parameters) : template_parameters[i].name = name)

\* C24: every entry of the values prompt_for_parameters has accepted, the
\* derived PrefixUpper included, is valid for validate_parameter against the
\* definition of its own parameter.
C24_AcceptedValuesValid ==
    template_parameters # <<>> =>
        \A name \in DOMAIN prompt_values :
            validate_parameter(prompt_values[name],
                               template_parameters[DefOf(name)].def).valid

\* C29: accepting a valid StageId never fails: the call goes on, the stage
\* is the value entered and, when the value differs from the StageId default,
\* the defaults of DeployEnvironment, RepositoryBranch and CodeCommitBranch
\* offered afterwards are those calculate_stage_defaults gives for it.
C29_StageIdAccepted ==
    [][(/\ pc = "ask"
        /\ template_parameters[param_idx].name = "StageId"
        /\ "StageId" \notin DOMAIN prompt_values
        /\ "StageId" \in DOMAIN prompt_values')
       => /\ prompt_error' = ""
          /\ pc' = "loop"
          /\ self_stage_id' = prompt_values'["StageId"]
          /\ ("StageId" \in DOMAIN prompt_defaults
                /\ prompt_values'["StageId"] # prompt_defaults["StageId"])
             => \A n \in StageDefaultNames :
                    HasParam(n) => prompt_defaults'[n] =
                                    calculate_stage_defaults(self_stage_id')[n]]_vars

\* ---------------------------------------------------------------------------
\* C30: generate_automated_tags gives a tag list for every parameter map, and
\* the list holds the CodeCommitRepository tag exactly when the
\* CodeCommitRepository parameter is non-empty, the CodeCommitBranch tag
\* exactly when the CodeCommitBranch parameter is non-empty, each with the
\* value of that parameter.
C30_CodeCommitTags ==
    /\ pc # "error"
    /\ pc = "done" =>
        /\ HasKey(automated_tags, K_CodeCommitRepository)
                <=> Truthy(gen_parameters, "CodeCommitRepository")
        /\ HasKey(automated_tags, K_CodeCommitBranch)
                <=> Truthy(gen_parameters, "CodeCommitBranch")
        /\ HasKey(automated_tags, K_CodeCommitRepository) =>
                ValueOf(automated_tags, K_CodeCommitRepository)
                    = gen_parameters["CodeCommitRepository"]
        /\ HasKey(automated_tags, K_CodeCommitBranch) =>
                ValueOf(automated_tags, K_CodeCommitBranch)
                    = gen_parameters["CodeCommitBranch"]

\* ---------------------------------------------------------------------------
\* the same stages with those at positions i and i + 1 inserted the other
\* way round
SwapAt(order, i) ==
    [j \in Idx(order) |->
        IF j = i THEN order[i + 1] ELSE IF j = i + 1 THEN order[i] ELSE order[j]]

\* C27: the order save_config writes the stage sections in depends on the
\* set of stage ids only: the same stages inserted in another order (any two
\* neighbours exchanged, which generates every other order) are written in
\* the same sequence, also when stages share a first character.
C27_OrderFromSetOnly ==
    pc = "done" =>
        \A i \in 1..(Len(deployment_stages) - 1) :
            sorted(SwapAt(deployment_stages, i)) = written_stages

(***************************************************************************)
(* Specification SpecRead: read_samconfig over a file with an atlantis     *)
(* section and two deployment sections                                     *)
(***************************************************************************)
\* tag strings of a deployment section: none, "Owner"="a", a token without
\* '=', an unclosed quote
TagStrings ==
    { <<>>,
      <<DQuote,"O","w","n","e","r",DQuote,Equals,DQuote,"a",DQuote>>,
      <<"O","w","n","e","r">>,
      <<DQuote,"O","w","n","e","r",DQuote,Equals,DQuote,"a">> }

\* parameter_overrides strings of a deployment section: none, "A"="a", a
\* token without '=', an unclosed quote
OverridesStrings ==
    { <<>>,
      <<DQuote,"A",DQuote,Equals,DQuote,"a",DQuote>>,
      <<"A">>,
      <<DQuote,"A",DQuote,Equals,DQuote,"a">> }

\* a deployment section of the file
FileSection(key, parameter_overrides, tag_text) ==
    [key |-> key, parameter_overrides |-> parameter_overrides, tags |-> tag_text]

InitRead ==
    /\ pc = "read"
    /\ \E o1, o2 \in OverridesStrings, t1, t2 \in TagStrings :
            samconfig = [atlantis |-> "deploy parameters",
                         sections |-> <<FileSection(S_dev, o1, t1),
                                        FileSection(S_test, o2, t2)>>]
    /\ section_idx = 1
    /\ samconfig_data = [atlantis |-> "deploy parameters", deployments |-> <<>>]
    /\ read_result = ""
    /\ IdleTags
    /\ IdleDefaults
    /\ IdleValidate
    /\ IdleCompare
    /\ IdleMain
    /\ IdleSave
    /\ IdleOverrides
    /\ IdleTagString
    /\ IdleGen
    /\ IdlePrompt
    /\ IdleBuild

UnchangedByRead ==
    UNCHANGED <<tagVars, defaultsVars, validateVars, compareVars, mainVars, saveVars, overridesVars, tagStringVars, genVars, promptVars, buildVars>>

\* one iteration of `for key, value in samconfig.items()`: a non-empty
\* parameter_overrides string and a non-empty tags string are replaced by
\* what their parser returns and the section is stored; the ValueError of
\* parse_tags is not one of (AttributeError, TypeError), it reaches
\* `except Exception` and the call returns None
ReadSection ==
    /\ pc = "read"
    /\ section_idx <= Len(samconfig.sections)
    /\ LET value     == samconfig.sections[section_idx]
           overrides == IF value.parameter_overrides # <<>>
                        THEN parse_parameter_overrides(value.parameter_overrides)
                        ELSE value.parameter_overrides
           parsed    == parse_tags(value.tags)
       IN  IF value.tags # <<>> /\ parsed.raised
           THEN /\ read_result' = "None"
                /\ pc' = "done"
                /\ UNCHANGED <<section_idx, samconfig_data>>
           ELSE /\ samconfig_data' =
                        [samconfig_data EXCEPT !.deployments =
                            Append(@, [key |-> value.key,
                                       parameter_overrides |-> overrides,
                                       tags |-> parsed.tags])]
                /\ section_idx' = section_idx + 1
                /\ UNCHANGED <<pc, read_result>>
    /\ UNCHANGED samconfig
    /\ UnchangedByRead

\* `return samconfig_data`
ReturnSamconfigData ==
    /\ pc = "read"
    /\ section_idx > Len(samconfig.sections)
    /\ read_result' = "data"
    /\ pc' = "done"
    /\ UNCHANGED <<samconfig, section_idx, samconfig_data>>
    /\ UnchangedByRead

NextRead ==
    \/ ReadSection
    \/ ReturnSamconfigData

SpecRead == InitRead /\ [][NextRead]_vars

\* the strings of the section can both be parsed
Parsable(value) ==
    /\ ~parse_tags(value.tags).raised
    /\ shlex_split(value.parameter_overrides).error = None

\* the keys of the deployment sections of the dictionary returned
ReturnedSections ==
    {samconfig_data.deployments[i].key : i \in Idx(samconfig_data.deployments)}

\* C26: a deployment section with a tag string or a parameter_overrides
\* string that cannot be parsed does not fail the read: read_samconfig
\* returns the atlantis section and every section whose strings parse.
C26_OnlyFragmentSkipped ==
    (pc = "done" /\ samconfig # <<>> /\ section_idx > 0) =>
        /\ read_result = "data"
        /\ samconfig_data.atlantis = samconfig.atlantis
        /\ \A i \in Idx(samconfig.sections) :
                Parsable(samconfig.sections[i]) =>
                    samconfig.sections[i].key \in ReturnedSections

(***************************************************************************)
(* Specification SpecBuild: runs of the script for one prefix and project: *)
(* build_config on the configuration read from the samconfig file, and the *)
(* file written by save_config read again by the next run.  A deployment   *)
(* entry is the dictionary under ['deploy']['parameters'].                 *)
(***************************************************************************)
\* the positional arguments given on the command line
CliPrefix    == "acme"
CliProjectId == "web"

\* sys.argv: the arguments alone, and with an option in front of them
Argvs ==
    { <<"config.py", infra_type, CliPrefix, CliProjectId>>,
      <<"config.py", "--check-stack", infra_type, CliPrefix, CliProjectId>> }

\* self.stage_id: the stage argument, 'default' without one
CliStages == {"default", "dev", "test"}

\* parameter_values: the Prefix given or another one (a copy), with or
\* without a StageId parameter in the template
ParameterValues ==
    { [Prefix |-> CliPrefix, ProjectId |-> CliProjectId],
      [Prefix |-> CliPrefix, ProjectId |-> CliProjectId, StageId |-> "test"],
      [Prefix |-> "other", ProjectId |-> CliProjectId] }

\* the template file of main() (a local file name or an s3 location) with
\* what gather_atlantis_deploy_parameters returned
DeployInputs ==
    { [template_file |-> template_file,
       s3_bucket |-> "bucket-1", region |-> "us-east-1", confirm_changeset |-> "true",
       role_arn |-> "arn:aws:iam::1:role/r"],
      [template_file |-> "s3://bucket/" \o template_file,
       s3_bucket |-> "bucket-2", region |-> "us-west-2", confirm_changeset |-> "False",
       role_arn |-> "arn:aws:iam::1:role/r"] }

\* the answers 'Apply Deploy Parameters to All?' accepts (any other answer
\* is asked again)
ApplyAnswers == {"Yes", "n"}

\* choice.upper()
UpperAnswer(answer) ==
    CASE answer = "Yes" -> "YES"
      [] answer = "n"   -> "N"

\* atlantis_deploy_params['confirm_changeset'].lower() == 'true'
IsTrue(text) == text \in {"true", "True", "TRUE"}

\* parameter_values.get(name, '')
GetOrEmpty(parameter_values, name) ==
    IF name \in DOMAIN parameter_values THEN parameter_values[name] ELSE ""

\* dict.update(): the keys of update are added or overwritten
Update(d, update) ==
    [k \in DOMAIN d \cup DOMAIN update |->
        IF k \in DOMAIN update THEN update[k] ELSE d[k]]

\* ConfigManager.generate_stack_name(prefix, project_id, stage_id); an empty
\* argument stands for the attribute of the manager
generate_stack_name(prefix, project_id, stage, manager) ==
    LET p  == IF prefix = "" THEN manager.prefix ELSE prefix
        pj == IF project_id = "" THEN manager.project_id ELSE project_id
        st == IF stage = "" THEN manager.stage_id ELSE stage
    IN  p \o "-"
        \o (IF pj # "" THEN pj \o "-" ELSE "")
        \o (IF st # "" /\ st # "default" THEN st \o "-" ELSE "")
        \o infra_type

\* the stage_id of build_config: the StageId parameter, else self.stage_id
BuildStage(parameter_values, self_stage) ==
    IF GetOrEmpty(parameter_values, "StageId") # ""
    THEN parameter_values["StageId"]
    ELSE self_stage

\* the deployments build_config starts from: those of the local
\* configuration, or none when there is no local configuration or the
\* prefix or the project differs from sys.argv[2] and sys.argv[3]
StartDeployments(parameter_values, argv) ==
    IF \/ ~local_exists
       \/ GetOrEmpty(parameter_values, "Prefix") # argv[3]
       \/ /\ GetOrEmpty(parameter_values, "ProjectId") # ""
          /\ GetOrEmpty(parameter_values, "ProjectId") # argv[4]
    THEN <<>>
    ELSE local_deployments

\* an update that replaces the entry of every stage by the deploy parameters
ApplyToAll_replace(deployments, atlantis_default_deploy_parameters) ==
    [d \in DOMAIN deployments |-> atlantis_default_deploy_parameters]

\* `for deployment in deployments: deployments[deployment]['deploy']
\* ['parameters'].update(atlantis_default_deploy_parameters)`
ApplyToAll(deployments, atlantis_default_deploy_parameters) ==
    [d \in DOMAIN deployments |->
        Update(deployments[d], atlantis_default_deploy_parameters)]

\* template_file.startswith('s3://')
IsS3(file) == file = "s3://bucket/" \o template_file

InitBuild ==
    /\ pc = "build"
    /\ local_exists = FALSE
    /\ local_deployments = <<>>
    /\ build_argv = <<>>
    /\ build_values = <<>>
    /\ build_stage_id = ""
    /\ apply_choice = ""
    /\ built_atlantis = <<>>
    /\ built_deployments = <<>>
    /\ IdleTags
    /\ IdleDefaults
    /\ IdleValidate
    /\ IdleCompare
    /\ IdleMain
    /\ IdleSave
    /\ IdleOverrides
    /\ IdleTagString
    /\ IdleGen
    /\ IdlePrompt
    /\ IdleRead

UnchangedByBuild ==
    UNCHANGED <<tagVars, defaultsVars, validateVars, compareVars, mainVars, saveVars, overridesVars, tagStringVars, genVars, promptVars, readVars>>

\* build_config ends in gather_atlantis_deploy_parameters: the answer '^'
\* runs sys.exit(0)
ExitWhileGathering ==
    /\ pc = "build"
    /\ pc' = "exit"
    /\ UNCHANGED buildVars
    /\ UnchangedByBuild

\* build_config(infra_type, template_file, atlantis_deploy_parameter_defaults,
\* parameter_values, tag_defaults, local_config) of a run with the stage
\* argument self_stage
BuildConfig ==
    /\ pc = "build"
    /\ \E argv \in Argvs, self_stage \in CliStages, parameter_values \in ParameterValues,
          atlantis_deploy_params \in DeployInputs, answer \in ApplyAnswers :
        LET stage   == BuildStage(parameter_values, self_stage)
            file    == atlantis_deploy_params.template_file
            manager == [prefix |-> parameter_values["Prefix"],
                        project_id |-> parameter_values["ProjectId"],
                        stage_id |-> self_stage]
            deployments == StartDeployments(parameter_values, argv)
            stack_name  == generate_stack_name(GetOrEmpty(parameter_values, "Prefix"),
                                               GetOrEmpty(parameter_values, "ProjectId"),
                                               stage, manager)
            local_tags_of_stage ==
                IF local_exists /\ self_stage \in DOMAIN local_deployments
                THEN local_deployments[self_stage].tags ELSE <<>>
            generated == generate_tags(parameter_values, local_tags_of_stage)
            atlantis_default_deploy_parameters ==
                [template_file |-> IF IsS3(file) THEN file
                                   ELSE "../../templates/" \o file,
                 s3_bucket |-> atlantis_deploy_params.s3_bucket,
                 region |-> atlantis_deploy_params.region,
                 capabilities |-> "CAPABILITY_NAMED_IAM",
                 confirm_changeset |-> IsTrue(atlantis_deploy_params.confirm_changeset)]
            asked   == Cardinality(DOMAIN deployments) > 1
            applied == IF asked /\ UpperAnswer(answer) \in {"Y", "YES"}
                       THEN ApplyToAll(deployments, atlantis_default_deploy_parameters)
                       ELSE deployments
            deployment_parameters ==
                Update(atlantis_default_deploy_parameters,
                       [stack_name |-> stack_name,
                        s3_prefix |-> stack_name,
                        parameter_overrides |-> parameter_values,
                        tags |-> generated.tags])
        IN  /\ build_argv' = argv
            /\ build_values' = parameter_values
            /\ build_stage_id' = stage
            /\ IF generated.raised
               THEN /\ pc' = "error"
                    /\ UNCHANGED <<apply_choice, built_atlantis, built_deployments>>
               ELSE /\ apply_choice' = IF asked THEN answer ELSE ""
                    /\ built_deployments' =
                            Update(applied, [d \in {stage} |-> deployment_parameters])
                    /\ built_atlantis' =
                            IF infra_type = "pipeline"
                            THEN Update(atlantis_default_deploy_parameters,
                                        [role_arn |-> atlantis_deploy_params.role_arn])
                            ELSE atlantis_default_deploy_parameters
                    /\ pc' = "built"
    /\ UNCHANGED <<local_exists, local_deployments>>
    /\ UnchangedByBuild

\* save_config writes one section per stage of the configuration to the
\* samconfig file of the Prefix and ProjectId values; the next run reads the
\* file of its arguments: the sections written (for the values of this
\* specification the strings written are read back as the same values), or
\* what it held before when the configuration went to another file
SaveAndRunAgain ==
    /\ pc = "built"
    /\ IF build_values["Prefix"] = CliPrefix /\ build_values["ProjectId"] = CliProjectId
       THEN /\ local_exists' = TRUE
            /\ local_deployments' = built_deployments
       ELSE UNCHANGED <<local_exists, local_deployments>>
    /\ pc' = "build"
    /\ UNCHANGED <<build_argv, build_values, build_stage_id, apply_choice,
                   built_atlantis, built_deployments>>
    /\ UnchangedByBuild

NextBuild ==
    \/ ExitWhileGathering
    \/ BuildConfig
    \/ SaveAndRunAgain

SpecBuild == InitBuild /\ [][NextBuild]_vars

\* C25: no configuration build_config produces, over any sequence of runs
\* for the same prefix and project, holds the stage 'default' together with
\* another stage.
C25_DefaultStandsAlone ==
    "default" \in DOMAIN built_deployments => DOMAIN built_deployments = {"default"}

\* the keys 'Apply Deploy Parameters to All?' may overwrite
DeployKeys == {"template_file", "s3_bucket", "region", "capabilities", "confirm_changeset"}

\* the keys of a stage that stay its own
StageKeys == {"parameter_overrides", "tags", "stack_name", "s3_prefix"}

\* the stages of the built configuration other than the current one
OtherStages == DOMAIN built_deployments \ {build_stage_id}

\* C28: build_config changes nothing but the deploy parameters of a stage
\* other than the current one: every other stage of the configuration built
\* is a stage of the local configuration with the same parameter_overrides,
\* tags, stack_name and s3_prefix; after the answer Yes only template_file,
\* s3_bucket, region, capabilities and confirm_changeset are overwritten
\* (with the new deploy parameters); after No, or without the question, the
\* other stages are as they were.
C28_OtherStagesKept ==
    pc = "built" =>
        \A d \in OtherStages :
            /\ d \in DOMAIN local_deployments
            /\ DOMAIN built_deployments[d] = DOMAIN local_deployments[d]
            /\ \A k \in DOMAIN built_deployments[d] \ DeployKeys :
                    built_deployments[d][k] = local_deployments[d][k]
            /\ \A k \in StageKeys :
                    built_deployments[d][k] = local_deployments[d][k]
            /\ IF apply_choice # "" /\ UpperAnswer(apply_choice) \in {"Y", "YES"}
               THEN \A k \in DeployKeys :
                        built_deployments[d][k] = built_deployments[build_stage_id][k]
               ELSE built_deployments[d] = local_deployments[d]

\* the answer Yes with another stage whose deploy parameters were overwritten
C28_Witness ==
    /\ pc = "built"
    /\ apply_choice = "Yes"
    /\ \E d \in OtherStages :
            /\ built_deployments[d].region # local_deployments[d].region
            /\ built_deployments[d].stack_name # built_deployments[build_stage_id].stack_name

====
